---- MODULE Spec2Model ----
(***************************************************************************)
(* State-machine model of the SJA1105 switch driver                        *)
(* (drivers/net/dsa/sja1105) and of the generic bit-field packing library  *)
(* (lib/packing.c) it is built on.                                         *)
(*                                                                         *)
(* A u64 is modelled as the set of the indices of its set bits (a subset   *)
(* of 0..63), a byte as a subset of 0..7, so that 64-bit values keep their *)
(* full width.                                                             *)
(***************************************************************************)
EXTENDS Integers, Sequences, FiniteSets, TLC

VARIABLES
    \* ---- lib/packing.c: one PACK followed by one UNPACK ----
    pk_pc,        \* "start" -> "packed" -> "done"
    pbuf,         \* the packed buffer: byte address -> byte
    pbuflen,      \* its length in bytes
    pstartbit,    \* logical start bit of the window
    pendbit,      \* logical end bit of the window
    quirks,       \* subset of the three QUIRK_ flags
    uval,         \* the unpacked u64
    uval_in,      \* the value handed to PACK
    pk_rc,        \* return code of the last packing() call
    shift_ub,     \* what this build does with an out-of-range shift count
    \* ---- sja1105_static_config.c: a configuration, packed and unpacked ----
    cfg_pc,       \* "built" -> "packed" -> "unpacked"
    static_config,   \* the in-memory struct sja1105_static_config
    config_buf,      \* the buffer sja1105_static_config_pack() wrote
    unpacked_config, \* the configuration sja1105_static_config_unpack() fills
    cfg_rc,       \* what sja1105_static_config_unpack() returned
    \* ---- sja1105_spi.c: sja1105_static_config_upload() ----
    up_pc,        \* "start" -> ("reset" -> "transfer" -> "status")* -> "done"
    up_rc,        \* rc of sja1105_static_config_upload()
    retries,      \* its retry budget
    status,       \* its local struct sja1105_general_status
    priv_device_id,  \* priv->device_id, read from the switch at probe time
    nReset,       \* cold resets issued to the switch
    nTransfer,    \* configuration transfers started
    nStatus,      \* general status reads issued
    xfer_len,     \* bytes the last configuration transfer got through
    attempt_healthy, \* the current attempt got through, status flags clear
    only_not_valid,  \* transport never failed, status never had configs set
    \* ---- sja1105-dynamic-config.c: reads and writes of one table ----
    dyn_pc,       \* "ready" -> ("poll"* ->) "done" -> ...
    dyn_gen,      \* the switch generation priv->dyn_ops was chosen for
    dyn_blk,      \* the table kind the calls are about
    dyn_call,     \* the current call: [op, index, keep, has_entry]
    dyn_rc,       \* what it returned
    dyn_buf,      \* its packed_buf
    dyn_cmd,      \* its struct sja1105_dyn_cmd
    dyn_retries,  \* the retry budget of a read
    dyn_entry,    \* the caller's entry structure (<< >>: a NULL pointer)
    dyn_hw,       \* the switch: entries present, status of the last command
    dyn_polls,    \* the status each completed poll of the call decoded
    dyn_nwrites,  \* SPI write transfers the call started
    dyn_npolls,   \* SPI read transfers the call started
    dyn_spi_failed,  \* a transfer of the call failed
    dyn_deleted,  \* the index the call just before deleted with success
    \* ---- sja1105_tas.c: sja1105_setup_taprio() ----
    tas_pc,       \* "ready"
    priv_tas_config,  \* priv->tas_config[]: port -> program or NoProgram
    tas_tables,   \* the four schedule tables of priv->static_config
    tas_rc,       \* what the last sja1105_setup_taprio() returned
    tas_work,     \* priv->tas_config_work is scheduled
    tas_call,     \* the last call: [port, request, qopt, checked, conflict,
                  \* built], qopt the copy once there is one
    tas_unit,     \* log2 of the nanoseconds in one unit of the times
    \* ---- sja1105_static_config.c: operations on the tables ----
    tbl_pc,       \* "ready", or "wrapped" once an entry_count went below 0
    tbl_config,   \* the struct sja1105_static_config operated on
    tbl_prev,     \* its tables before the last operation
    tbl_call,     \* the last operation: [op, blk_idx, arg]
    tbl_rc,       \* what it returned
    tbl_nops,     \* operations so far
    \* ---- sja1105_static_config.c: unpacking a buffer that was altered ----
    cfg_tamper,   \* how the packed buffer was altered before the unpacking
    \* ---- sja1105_spi.c: sja1105_spi_send_long_packed_buf() ----
    send_pc,      \* "ready" -> "loop" -> "done" -> "ready"
    send_call,    \* the call: [base_addr, buf_len]
    chunk,        \* its struct chunk: [buf_ptr, len, spi_address]
    send_rc,      \* what it returned
    send_log,     \* the transfers it issued: [reg_addr, off, len, rc]
    \* ---- sja1105_tas.c: sja1105_tas_config_work() next to the caller ----
    wk_pc,        \* sja1105_setup_taprio(): "ready" -> "discard" ->
                  \* "allocate" -> "populate" -> "schedule" -> "ready"
    wk_worker,    \* the worker: "idle" -> "run" -> "upload" -> "idle"
    wk_freed,     \* the schedule tables that the last discard freed
    wk_buf,       \* the schedule tables as the worker serialized them
    wk_torn,      \* the worker read the tables in the middle of a rebuild
    wk_version,   \* accepted changes of the schedule so far
    wk_seen,      \* [read, up]: the version the worker read, and uploaded
    \* ---- sja1105_static_config.c: two sja1105_packing() on one buffer ----
    pair_pc,      \* "start" -> "one" -> "both" -> "done"
    pair_in,      \* [buf, len, a, b]: the buffer and the two fields, each
                  \* [start, end, val]
    pair_one,     \* [a, b]: the buffer with one of the fields packed
    pair_both,    \* [ab, ba]: the buffer with both, in either order
    pair_out      \* [a, b]: the fields unpacked from the buffer with both

pkVars == <<pk_pc, pbuf, pbuflen, pstartbit, pendbit, quirks, uval, uval_in,
            pk_rc>>

cfgVars == <<cfg_pc, static_config, config_buf, unpacked_config, cfg_rc>>

upVars == <<up_pc, up_rc, retries, status, priv_device_id, nReset, nTransfer,
            nStatus, xfer_len, attempt_healthy, only_not_valid>>

dynVars == <<dyn_pc, dyn_gen, dyn_blk, dyn_call, dyn_rc, dyn_buf, dyn_cmd,
             dyn_retries, dyn_entry, dyn_hw, dyn_polls, dyn_nwrites,
             dyn_npolls, dyn_spi_failed, dyn_deleted>>

tasVars == <<tas_pc, priv_tas_config, tas_tables, tas_rc, tas_work, tas_call,
            tas_unit>>

tblVars == <<tbl_pc, tbl_config, tbl_prev, tbl_call, tbl_rc, tbl_nops>>

tmpVars == <<cfg_tamper>>

sendVars == <<send_pc, send_call, chunk, send_rc, send_log>>

\* the variables of the specifications further down
wkVars == <<wk_pc, wk_worker, wk_freed, wk_buf, wk_torn, wk_version, wk_seen>>

pairVars == <<pair_pc, pair_in, pair_one, pair_both, pair_out>>

laterVars == <<tblVars, tmpVars, sendVars, wkVars, pairVars>>

vars == <<pkVars, shift_ub, cfgVars, upVars, dynVars, tasVars, laterVars>>

\* ------------------------------------------------------------------------
\* errno values
EINVAL == 22
ERANGE == 34
ENOMEM == 12
EIO == 5
ETIMEDOUT == 110
EOPNOTSUPP == 95
ENOTSUPP == 524

\* ------------------------------------------------------------------------
\* 64-bit words as bit sets

U64Bits == 0..63
U8Bits == 0..7

\* A shift count outside 0..63 is undefined behaviour in C.  The builds in
\* use either reduce the count modulo 64 (x86-64, arm64 variable shifts) or
\* shift everything out (arm32 register shifts, constant folding).
ShiftOutcomes == {"wrap", "zero"}

ShiftLeft(v, n, ub) ==
    IF n \in U64Bits THEN {b + n : b \in v} \cap U64Bits
    ELSE IF ub = "wrap" THEN {b + (n % 64) : b \in v} \cap U64Bits
    ELSE {}

ShiftRight(v, n, ub) ==
    IF n \in U64Bits THEN {b - n : b \in v} \cap U64Bits
    ELSE IF ub = "wrap" THEN {b - (n % 64) : b \in v} \cap U64Bits
    ELSE {}

\* (~0ULL - (1ULL << l) + 1) & (~0ULL >> (64 - 1 - h))
GENMASK_ULL(h, l, ub) ==
    LET one == ShiftLeft({0}, l, ub)
        low == IF l \in U64Bits THEN l..63
               ELSE IF one = {} THEN {}
               ELSE {b \in U64Bits : \A o \in one : b >= o}
        high == IF 64 - 1 - h \in U64Bits THEN 0..h
                ELSE ShiftRight(U64Bits, 64 - 1 - h, ub)
    IN low \cap high

\* truncation of a u64 to a u8
ToU8(v) == v \cap U8Bits

\* TLC passes operator arguments unevaluated; Strict(x, e) is e with x
\* evaluated first.
Strict(x, e) == IF x = x THEN e ELSE e

\* TLC keeps a function [x \in S |-> e] as its expression and evaluates e at
\* every application; Eval(f) is f, evaluated once.
Eval(f) == IF f = f THEN f ELSE f

\* for (i = lo; i <= hi; i++) st = body(st, i);
\* The iterations run in order, each on the state the one before left.  The
\* index range is cut into eight consecutive chunks of w indices that are
\* run one after the other, so that the evaluation nests only as deep as
\* the logarithm of the trip count.
Done(s) == s = s

RECURSIVE ForLoop(_, _, _, _)
ForLoop(body(_, _), st, lo, hi) ==
    LET w == ((hi - lo) \div 8) + 1
        \* the indices a..b of the loop, b capped at hi
        run(s0, a, b) ==
            IF a > hi THEN s0
            ELSE IF a >= b \/ a = hi THEN body(s0, a)
            ELSE ForLoop(body, s0, a, IF b < hi THEN b ELSE hi)
        s1 == run(st, lo, lo + w - 1)
        s2 == run(s1, lo + w, lo + 2 * w - 1)
        s3 == run(s2, lo + 2 * w, lo + 3 * w - 1)
        s4 == run(s3, lo + 3 * w, lo + 4 * w - 1)
        s5 == run(s4, lo + 4 * w, lo + 5 * w - 1)
        s6 == run(s5, lo + 5 * w, lo + 6 * w - 1)
        s7 == run(s6, lo + 6 * w, lo + 7 * w - 1)
    IN IF lo > hi THEN st
       ELSE IF /\ Done(s1) /\ Done(s2) /\ Done(s3) /\ Done(s4)
               /\ Done(s5) /\ Done(s6) /\ Done(s7)
       THEN run(s7, lo + 7 * w, hi)
       ELSE st

\* ------------------------------------------------------------------------
\* lib/packing.c

QUIRK_MSB_ON_THE_RIGHT == "QUIRK_MSB_ON_THE_RIGHT"
QUIRK_LITTLE_ENDIAN == "QUIRK_LITTLE_ENDIAN"
QUIRK_LSW32_IS_FIRST == "QUIRK_LSW32_IS_FIRST"
AllQuirks == {QUIRK_MSB_ON_THE_RIGHT, QUIRK_LITTLE_ENDIAN, QUIRK_LSW32_IS_FIRST}

PACK == "PACK"
UNPACK == "UNPACK"

get_le_offset(offset) ==
    LET closest_multiple_of_4 == (offset \div 4) * 4
    IN closest_multiple_of_4 + (3 - (offset - closest_multiple_of_4))

\* the offset left where it is, as without QUIRK_LSW32_IS_FIRST
get_same_lsw32_offset(offset, len) == offset

get_reverse_lsw32_offset(offset, len) ==
    LET word_index == offset \div 4
        rest == offset - word_index * 4
    IN ((len \div 4) - word_index - 1) * 4 + rest

bit_reverse(val, width) ==
    {width - i - 1 : i \in {j \in 0..(width - 1) : j \in val}}

adjust_for_msb_right_quirk(to_write, box_start_bit, box_end_bit, ub) ==
    LET box_bit_width == box_start_bit - box_end_bit + 1
        shifted == ShiftRight(to_write, box_end_bit, ub)
        reversed == bit_reverse(shifted, box_bit_width)
        new_box_end_bit == box_bit_width - box_start_bit - 1
        new_box_start_bit == box_bit_width - box_end_bit - 1
    IN [to_write |-> ShiftLeft(reversed, box_end_bit, ub),
        box_mask |-> ToU8(GENMASK_ULL(new_box_start_bit, new_box_end_bit, ub)),
        box_start_bit |-> new_box_start_bit,
        box_end_bit |-> new_box_end_bit]

\* The value, the mask and the bit bounds of a box after
\* if (quirks & QUIRK_MSB_ON_THE_RIGHT) adjust_for_msb_right_quirk(...)
box_adjusted(to_write, box_start_bit, box_end_bit, qs, ub) ==
    IF QUIRK_MSB_ON_THE_RIGHT \in qs
    THEN adjust_for_msb_right_quirk(to_write, box_start_bit, box_end_bit, ub)
    ELSE [to_write |-> to_write,
          box_mask |-> ToU8(GENMASK_ULL(box_start_bit, box_end_bit, ub)),
          box_start_bit |-> box_start_bit,
          box_end_bit |-> box_end_bit]

\* pval >>= box_end_bit; pval <<= proj_end_bit;
\* *uval &= ~proj_mask; *uval |= pval;
unpack_box(st, adj, proj_mask, proj_end_bit, ub) ==
    [st EXCEPT !.uval =
        (@ \ proj_mask)
        \cup ShiftLeft(ShiftRight(adj.to_write, adj.box_end_bit, ub),
                       proj_end_bit, ub)]

\* pval <<= box_end_bit;
\* ((u8 *)pbuf)[box_addr] &= ~box_mask; ((u8 *)pbuf)[box_addr] |= pval;
pack_box(st, box_addr, adj, ub) ==
    [st EXCEPT !.pbuf[box_addr] =
        (@ \ adj.box_mask)
        \cup ToU8(ShiftLeft(adj.to_write, adj.box_end_bit, ub))]

\* the two branches of the loop body, on the box at box_addr with its bit
\* bounds and their projection on the u64
packing_box_at(st, box_addr, box_start_bit, box_end_bit, proj_start_bit,
               proj_end_bit, op, qs, ub) ==
    IF op = UNPACK
    THEN unpack_box(st,
             box_adjusted(st.pbuf[box_addr]
                              \cap ToU8(GENMASK_ULL(box_start_bit,
                                                    box_end_bit, ub)),
                          box_start_bit, box_end_bit, qs, ub),
             GENMASK_ULL(proj_start_bit, proj_end_bit, ub), proj_end_bit, ub)
    ELSE pack_box(st, box_addr,
             box_adjusted(ShiftRight(st.uval
                                         \cap GENMASK_ULL(proj_start_bit,
                                                          proj_end_bit, ub),
                                     proj_end_bit, ub),
                          box_start_bit, box_end_bit, qs, ub),
             ub)

\* box_addr = pbuflen - box - 1, then the two offset quirks
box_addr_of(box, len, qs) ==
    LET addr0 == len - box - 1
        addr1 == IF QUIRK_LITTLE_ENDIAN \in qs THEN get_le_offset(addr0)
                 ELSE addr0
    IN IF QUIRK_LSW32_IS_FIRST \in qs
       THEN get_reverse_lsw32_offset(addr1, len) ELSE addr1

\* One iteration of the loop over the logical bytes ("boxes") of the window.
\* st is [pbuf, uval].
packing_box(st, box, startbit, endbit, len, op, qs, ub) ==
    LET box_start_bit == IF box = startbit \div 8 THEN startbit % 8 ELSE 7
        box_end_bit == IF box = endbit \div 8 THEN endbit % 8 ELSE 0
    IN packing_box_at(st, box_addr_of(box, len, qs), box_start_bit,
                      box_end_bit, ((box * 8) + box_start_bit) - endbit,
                      ((box * 8) + box_end_bit) - endbit, op, qs, ub)

\* for (box = plogical_first_u8; box >= plogical_last_u8; box--)
packing_loop(st, startbit, endbit, len, op, qs, ub) ==
    ForLoop(LAMBDA bs, n : packing_box(bs, (startbit \div 8) - n, startbit,
                                      endbit, len, op, qs, ub),
            st, 0, (startbit \div 8) - (endbit \div 8))

\* what packing() hands back after the loop
packing_done(st) == [rc |-> 0, pbuf |-> st.pbuf, uval |-> st.uval]

\* int packing(pbuf, uval, pstartbit, pendbit, pbuflen, op, quirks):
\* the result is [rc, pbuf, uval].
packing(buf, val, startbit, endbit, len, op, qs, ub) ==
    IF startbit < endbit
    THEN [rc |-> -EINVAL, pbuf |-> buf, uval |-> val]
    ELSE IF startbit - endbit + 1 > 64
    THEN [rc |-> -ERANGE, pbuf |-> buf, uval |-> val]
    ELSE IF op = PACK /\ startbit - endbit + 1 < 64
            /\ \E b \in val : b >= startbit - endbit + 1
    THEN [rc |-> -ERANGE, pbuf |-> buf, uval |-> val]
    ELSE packing_done(
             packing_loop([pbuf |-> buf,
                           uval |-> IF op = UNPACK THEN {} ELSE val],
                          startbit, endbit, len, op, qs, ub))

\* ------------------------------------------------------------------------
\* small integers <-> bit sets

\* the bits of a natural number below 2^31
BitsOf(n) == {b \in 0..30 : (n \div (2 ^ b)) % 2 = 1}

\* a 32-bit word given as its two 16-bit halves
Word32(hi16, lo16) == BitsOf(lo16) \cup {b + 16 : b \in BitsOf(hi16)}

RECURSIVE SumPow2(_)
SumPow2(bits) ==
    IF bits = {} THEN 0
    ELSE LET b == CHOOSE x \in bits : TRUE
         IN (2 ^ b) + SumPow2(bits \ {b})

\* (int) v: the low 32 bits of a u64 read as a signed 32-bit integer
ToInt(v) ==
    IF 31 \in v THEN (SumPow2(v \cap (0..30)) - 1073741824) - 1073741824
    ELSE SumPow2(v \cap (0..30))

\* ------------------------------------------------------------------------
\* sja1105_static_config.h: table kinds, block ids, sizes

BlkIdxOrder ==
    << "BLK_IDX_SCHEDULE", "BLK_IDX_SCHEDULE_ENTRY_POINTS", "BLK_IDX_VL_LOOKUP",
       "BLK_IDX_VL_POLICING", "BLK_IDX_VL_FORWARDING", "BLK_IDX_L2_LOOKUP",
       "BLK_IDX_L2_POLICING", "BLK_IDX_VLAN_LOOKUP", "BLK_IDX_L2_FORWARDING",
       "BLK_IDX_MAC_CONFIG", "BLK_IDX_SCHEDULE_PARAMS",
       "BLK_IDX_SCHEDULE_ENTRY_POINTS_PARAMS", "BLK_IDX_VL_FORWARDING_PARAMS",
       "BLK_IDX_L2_LOOKUP_PARAMS", "BLK_IDX_L2_FORWARDING_PARAMS",
       "BLK_IDX_CLK_SYNC_PARAMS", "BLK_IDX_AVB_PARAMS", "BLK_IDX_GENERAL_PARAMS",
       "BLK_IDX_RETAGGING", "BLK_IDX_XMII_PARAMS", "BLK_IDX_SGMII" >>

BLK_IDX_MAX == Len(BlkIdxOrder)
BlkIdx == {BlkIdxOrder[i] : i \in 1..BLK_IDX_MAX}
BLK_IDX_INVAL == "BLK_IDX_INVAL"

\* blk_id_map[]: BLKID_* of each block index (0x4E = 78, 0xC8 = 200)
blk_id_map ==
    Eval([k \in BlkIdx |->
             CASE k = "BLK_IDX_XMII_PARAMS" -> 78
               [] k = "BLK_IDX_SGMII" -> 200
               [] OTHER ->
                    (CHOOSE i \in 1..BLK_IDX_MAX : BlkIdxOrder[i] = k) - 1])

BLKID_MAX == blk_id_map["BLK_IDX_SGMII"]

blk_idx_from_blk_id(block_id) ==
    IF block_id > BLKID_MAX THEN BLK_IDX_INVAL
    ELSE IF \E k \in BlkIdx : blk_id_map[k] = block_id
    THEN CHOOSE k \in BlkIdx : blk_id_map[k] = block_id
    ELSE BLK_IDX_INVAL

SIZE_SJA1105_DEVICE_ID == 4
SIZE_TABLE_HEADER == 12

\* device ids (0x9C00000C, 0x9E00030E, 0xAF00030E, 0xAE00030E)
SJA1105E_DEVICE_ID == Word32(39936, 12)
SJA1105T_DEVICE_ID == Word32(40448, 782)
SJA1105PR_DEVICE_ID == Word32(44800, 782)
SJA1105QS_DEVICE_ID == Word32(44544, 782)

IS_PQRS(device_id) ==
    device_id = SJA1105PR_DEVICE_ID \/ device_id = SJA1105QS_DEVICE_ID
IS_ET(device_id) ==
    device_id = SJA1105E_DEVICE_ID \/ device_id = SJA1105T_DEVICE_ID
DEVICE_ID_VALID(device_id) == IS_ET(device_id) \/ IS_PQRS(device_id)
SUPPORTS_TTETHERNET(device_id) ==
    device_id = SJA1105T_DEVICE_ID \/ device_id = SJA1105QS_DEVICE_ID

\* The six ops tables sja1105{e,t,p,q,r,s}_table_ops are named by the
\* letter of the switch they belong to.
Variants == {"E", "T", "P", "Q", "R", "S"}

VariantDeviceId(v) ==
    CASE v = "E" -> SJA1105E_DEVICE_ID
      [] v = "T" -> SJA1105T_DEVICE_ID
      [] v \in {"P", "R"} -> SJA1105PR_DEVICE_ID
      [] v \in {"Q", "S"} -> SJA1105QS_DEVICE_ID

\* enum sja1105_static_config_validity, in declaration order from 0
ValidityNames ==
    << "SJA1105_CONFIG_OK", "SJA1105_DEVICE_ID_INVALID",
       "SJA1105_TTETHERNET_NOT_SUPPORTED",
       "SJA1105_INCORRECT_TTETHERNET_CONFIGURATION",
       "SJA1105_INCORRECT_VIRTUAL_LINK_CONFIGURATION",
       "SJA1105_MISSING_L2_POLICING_TABLE",
       "SJA1105_MISSING_L2_FORWARDING_TABLE",
       "SJA1105_MISSING_L2_FORWARDING_PARAMS_TABLE",
       "SJA1105_MISSING_GENERAL_PARAMS_TABLE", "SJA1105_MISSING_VLAN_TABLE",
       "SJA1105_MISSING_XMII_TABLE", "SJA1105_MISSING_MAC_TABLE",
       "SJA1105_OVERCOMMITTED_FRAME_MEMORY",
       "SJA1105_UNEXPECTED_END_OF_BUFFER", "SJA1105_INVALID_DEVICE_ID",
       "SJA1105_INVALID_TABLE_HEADER_CRC", "SJA1105_INVALID_TABLE_HEADER",
       "SJA1105_INCORRECT_TABLE_LENGTH", "SJA1105_DATA_CRC_INVALID",
       "SJA1105_EXTRA_BYTES_AT_END_OF_BUFFER" >>

Validity(name) ==
    (CHOOSE i \in 1..Len(ValidityNames) : ValidityNames[i] = name) - 1

SJA1105_CONFIG_OK == Validity("SJA1105_CONFIG_OK")

\* ------------------------------------------------------------------------
\* sja1105_static_config.h: the unpacked entry structures.  An entry is a
\* function from the names of its struct's u64 members to their values; the
\* element i of an array member m is named "m[i]".

Elem(m, i) == m \o "[" \o ToString(i) \o "]"
Arr(m, n) == {Elem(m, i) : i \in 0..(n - 1)}

\* The members of the anonymous union of struct sja1105_vl_lookup_entry share
\* storage: egrmirr is destports, ingrmirr is iscritical, vlid is macaddr.
StructFields(k) ==
    CASE k = "BLK_IDX_SCHEDULE" ->
           {"winstindex", "winend", "winst", "destports", "setvalid", "txen",
            "resmedia_en", "resmedia", "vlindex", "delta"}
      [] k = "BLK_IDX_SCHEDULE_ENTRY_POINTS" -> {"subschindx", "delta", "address"}
      [] k = "BLK_IDX_VL_LOOKUP" ->
           {"format", "port", "destports", "iscritical", "macaddr", "vlanid",
            "vlanprior"}
      [] k = "BLK_IDX_VL_POLICING" ->
           {"type", "maxlen", "sharindx", "bag", "jitter"}
      [] k = "BLK_IDX_VL_FORWARDING" ->
           {"type", "priority", "partition", "destports"}
      [] k = "BLK_IDX_L2_LOOKUP" ->
           {"mirrvlan", "mirr", "retag", "mask_iotag", "mask_vlanid",
            "mask_macaddr", "iotag", "vlanid", "macaddr", "destports",
            "enfport", "index"}
      [] k = "BLK_IDX_L2_POLICING" ->
           {"sharindx", "smax", "rate", "maxlen", "partition"}
      [] k = "BLK_IDX_VLAN_LOOKUP" ->
           {"ving_mirr", "vegr_mirr", "vmemb_port", "vlan_bc", "tag_port",
            "vlanid"}
      [] k = "BLK_IDX_L2_FORWARDING" ->
           {"bc_domain", "reach_port", "fl_domain"} \cup Arr("vlan_pmap", 8)
      [] k = "BLK_IDX_MAC_CONFIG" ->
           Arr("top", 8) \cup Arr("base", 8) \cup Arr("enabled", 8) \cup
           {"ifg", "speed", "tp_delin", "tp_delout", "maxage", "vlanprio",
            "vlanid", "ing_mirr", "egr_mirr", "drpnona664", "drpdtag",
            "drpsotag", "drpsitag", "drpuntag", "retag", "dyn_learn", "egress",
            "ingress", "mirrcie", "mirrcetag", "ingmirrvid", "ingmirrpcp",
            "ingmirrdei"}
      [] k = "BLK_IDX_SCHEDULE_PARAMS" -> Arr("subscheind", 8)
      [] k = "BLK_IDX_SCHEDULE_ENTRY_POINTS_PARAMS" -> {"clksrc", "actsubsch"}
      [] k = "BLK_IDX_VL_FORWARDING_PARAMS" -> Arr("partspc", 8) \cup {"debugen"}
      [] k = "BLK_IDX_L2_LOOKUP_PARAMS" ->
           {"drpbc", "drpmc", "drpuni", "start_dynspc", "drpnolearn",
            "use_static", "owr_dyn", "learn_once", "maxage", "dyn_tbsz", "poly",
            "shared_learn", "no_enf_hostprt", "no_mgmt_learn"}
           \cup Arr("maxaddrp", 5)
      [] k = "BLK_IDX_L2_FORWARDING_PARAMS" -> {"max_dynp"} \cup Arr("part_spc", 8)
      [] k = "BLK_IDX_CLK_SYNC_PARAMS" ->
           {"etssrcpcf", "waitthsync", "wfintmout", "unsytotsyth", "unsytosyth",
            "tsytosyth", "tsyth", "tsytousyth", "syth", "sytousyth",
            "sypriority", "sydomain", "stth", "sttointth", "pcfsze",
            "pcfpriority", "obvwinsz", "numunstbcy", "numstbcy",
            "maxtranspclk", "maxintegcy", "listentmout", "intcydur",
            "inttotentth", "vlidout", "vlidimnmin", "vlidinmax", "caentmout",
            "accdevwin", "vlidselect", "tentsyrelen", "asytensyen",
            "sytostben", "syrelen", "sysyen", "syasyen", "ipcframesy",
            "stabasyen", "swmaster", "fullcbg"} \cup Arr("srcport", 8)
      [] k = "BLK_IDX_AVB_PARAMS" -> {"l2cbs", "cas_master", "destmeta", "srcmeta"}
      [] k = "BLK_IDX_GENERAL_PARAMS" ->
           {"vllupformat", "mirr_ptacu", "switchid", "hostprio", "mac_fltres1",
            "mac_fltres0", "mac_flt1", "mac_flt0", "incl_srcpt1", "incl_srcpt0",
            "send_meta1", "send_meta0", "casc_port", "host_port", "mirr_port",
            "vlmarker", "vlmask", "tpid", "ignore2stf", "tpid2", "queue_ts",
            "egrmirrvid", "egrmirrpcp", "egrmirrdei", "replay_port"}
      [] k = "BLK_IDX_RETAGGING" ->
           {"egr_port", "ing_port", "vlan_ing", "vlan_egr", "do_not_learn",
            "use_dest_ports", "destports"}
      [] k = "BLK_IDX_XMII_PARAMS" -> Arr("phy_mac", 5) \cup Arr("xmii_mode", 5)
      [] k = "BLK_IDX_SGMII" ->
           {"digital_error_cnt", "digital_control_2", "debug_control",
            "test_control", "autoneg_control", "digital_control_1",
            "autoneg_adv", "basic_control"}

\* memset(entry_ptr, 0, unpacked_entry_size)
ZeroEntry(k) == Eval([f \in StructFields(k) |-> {}])

\* ------------------------------------------------------------------------
\* sja1105_static_config.c: the entry codecs.  A codec is the sequence of its
\* sja1105_packing() calls in program order, each <<member, start, end>>; a
\* call inside "if (entry->g == 0)" is <<member, start, end, g, TRUE>> and
\* one inside the else branch <<member, start, end, g, FALSE>>.

\* for (i = 0, offset = first; i < n; i++, offset += stride)
\*         sja1105_packing(buf, &entry->m[i], offset + hi, offset + lo, ...)
Loop(m, n, first, stride, hi, lo) ==
    [j \in 1..n |-> <<Elem(m, j - 1), first + (j - 1) * stride + hi,
                      first + (j - 1) * stride + lo>>]

RECURSIVE Flatten(_)
Flatten(ss) == IF ss = <<>> THEN <<>> ELSE Head(ss) \o Flatten(Tail(ss))

sja1105et_avb_params_entry_packing ==
    << <<"destmeta", 95, 48>>, <<"srcmeta", 47, 0>> >>

sja1105pqrs_avb_params_entry_packing ==
    << <<"l2cbs", 127, 127>>, <<"cas_master", 126, 126>>,
       <<"destmeta", 125, 78>>, <<"srcmeta", 77, 33>> >>

sja1105et_general_params_entry_packing ==
    << <<"vllupformat", 319, 319>>, <<"mirr_ptacu", 318, 318>>,
       <<"switchid", 317, 315>>, <<"hostprio", 314, 312>>,
       <<"mac_fltres1", 311, 264>>, <<"mac_fltres0", 263, 216>>,
       <<"mac_flt1", 215, 168>>, <<"mac_flt0", 167, 120>>,
       <<"incl_srcpt1", 119, 119>>, <<"incl_srcpt0", 118, 118>>,
       <<"send_meta1", 117, 117>>, <<"send_meta0", 116, 116>>,
       <<"casc_port", 115, 113>>, <<"host_port", 112, 110>>,
       <<"mirr_port", 109, 107>>, <<"vlmarker", 106, 75>>,
       <<"vlmask", 74, 43>>, <<"tpid", 42, 27>>, <<"ignore2stf", 26, 26>>,
       <<"tpid2", 25, 10>> >>

sja1105pqrs_general_params_entry_packing ==
    << <<"vllupformat", 351, 351>>, <<"mirr_ptacu", 350, 350>>,
       <<"switchid", 349, 347>>, <<"hostprio", 346, 344>>,
       <<"mac_fltres1", 343, 296>>, <<"mac_fltres0", 295, 248>>,
       <<"mac_flt1", 247, 200>>, <<"mac_flt0", 199, 152>>,
       <<"incl_srcpt1", 151, 151>>, <<"incl_srcpt0", 150, 150>>,
       <<"send_meta1", 149, 149>>, <<"send_meta0", 148, 148>>,
       <<"casc_port", 147, 145>>, <<"host_port", 144, 142>>,
       <<"mirr_port", 141, 139>>, <<"vlmarker", 138, 107>>,
       <<"vlmask", 106, 75>>, <<"tpid", 74, 59>>, <<"ignore2stf", 58, 58>>,
       <<"tpid2", 57, 42>>, <<"queue_ts", 41, 41>>, <<"egrmirrvid", 40, 29>>,
       <<"egrmirrpcp", 28, 26>>, <<"egrmirrdei", 25, 25>>,
       <<"replay_port", 24, 22>> >>

sja1105_l2_forwarding_params_entry_packing ==
    << <<"max_dynp", 95, 93>> >> \o Loop("part_spc", 8, 13, 10, 9, 0)

sja1105_l2_forwarding_entry_packing ==
    << <<"bc_domain", 63, 59>>, <<"reach_port", 58, 54>>,
       <<"fl_domain", 53, 49>> >> \o Loop("vlan_pmap", 8, 25, 3, 2, 0)

sja1105et_l2_lookup_params_entry_packing ==
    << <<"maxage", 31, 17>>, <<"dyn_tbsz", 16, 14>>, <<"poly", 13, 6>>,
       <<"shared_learn", 5, 5>>, <<"no_enf_hostprt", 4, 4>>,
       <<"no_mgmt_learn", 3, 3>> >>

sja1105pqrs_l2_lookup_params_entry_packing ==
    << <<"drpbc", 127, 123>>, <<"drpmc", 122, 118>>, <<"drpuni", 117, 113>> >>
    \o Loop("maxaddrp", 5, 58, 11, 10, 0) \o
    << <<"maxage", 57, 43>>, <<"start_dynspc", 42, 33>>,
       <<"drpnolearn", 32, 28>>, <<"shared_learn", 27, 27>>,
       <<"no_enf_hostprt", 26, 26>>, <<"no_mgmt_learn", 25, 25>>,
       <<"use_static", 24, 24>>, <<"owr_dyn", 23, 23>>,
       <<"learn_once", 22, 22>> >>

sja1105et_l2_lookup_entry_packing ==
    << <<"vlanid", 95, 84>>, <<"macaddr", 83, 36>>, <<"destports", 35, 31>>,
       <<"enfport", 30, 30>>, <<"index", 29, 20>> >>

sja1105pqrs_l2_lookup_entry_packing ==
    << <<"mirrvlan", 158, 147>>, <<"mirr", 145, 145>>, <<"retag", 144, 144>>,
       <<"mask_iotag", 143, 143>>, <<"mask_vlanid", 142, 131>>,
       <<"mask_macaddr", 130, 83>>, <<"iotag", 82, 82>>, <<"vlanid", 81, 70>>,
       <<"macaddr", 69, 22>>, <<"destports", 21, 17>>, <<"enfport", 16, 16>>,
       <<"index", 15, 6>> >>

sja1105_l2_policing_entry_packing ==
    << <<"sharindx", 63, 58>>, <<"smax", 57, 42>>, <<"rate", 41, 26>>,
       <<"maxlen", 25, 15>>, <<"partition", 14, 12>> >>

sja1105et_mac_config_entry_packing ==
    Flatten([j \in 1..8 |->
        << <<Elem("enabled", j - 1), 72 + 19 * (j - 1), 72 + 19 * (j - 1)>>,
           <<Elem("base", j - 1), 72 + 19 * (j - 1) + 9, 72 + 19 * (j - 1) + 1>>,
           <<Elem("top", j - 1), 72 + 19 * (j - 1) + 18,
             72 + 19 * (j - 1) + 10>> >>]) \o
    << <<"ifg", 71, 67>>, <<"speed", 66, 65>>, <<"tp_delin", 64, 49>>,
       <<"tp_delout", 48, 33>>, <<"maxage", 32, 25>>, <<"vlanprio", 24, 22>>,
       <<"vlanid", 21, 10>>, <<"ing_mirr", 9, 9>>, <<"egr_mirr", 8, 8>>,
       <<"drpnona664", 7, 7>>, <<"drpdtag", 6, 6>>, <<"drpuntag", 5, 5>>,
       <<"retag", 4, 4>>, <<"dyn_learn", 3, 3>>, <<"egress", 2, 2>>,
       <<"ingress", 1, 1>> >>

sja1105pqrs_mac_config_entry_packing ==
    Flatten([j \in 1..8 |->
        << <<Elem("enabled", j - 1), 104 + 19 * (j - 1), 104 + 19 * (j - 1)>>,
           <<Elem("base", j - 1), 104 + 19 * (j - 1) + 9,
             104 + 19 * (j - 1) + 1>>,
           <<Elem("top", j - 1), 104 + 19 * (j - 1) + 18,
             104 + 19 * (j - 1) + 10>> >>]) \o
    << <<"ifg", 103, 99>>, <<"speed", 98, 97>>, <<"tp_delin", 96, 81>>,
       <<"tp_delout", 80, 65>>, <<"maxage", 64, 57>>, <<"vlanprio", 56, 54>>,
       <<"vlanid", 53, 42>>, <<"ing_mirr", 41, 41>>, <<"egr_mirr", 40, 40>>,
       <<"drpnona664", 39, 39>>, <<"drpdtag", 38, 38>>,
       <<"drpsotag", 37, 37>>, <<"drpsitag", 36, 36>>, <<"drpuntag", 35, 35>>,
       <<"retag", 34, 34>>, <<"dyn_learn", 33, 33>>, <<"egress", 32, 32>>,
       <<"ingress", 31, 31>>, <<"mirrcie", 30, 30>>, <<"mirrcetag", 29, 29>>,
       <<"ingmirrvid", 28, 17>>, <<"ingmirrpcp", 16, 14>>,
       <<"ingmirrdei", 13, 13>> >>

sja1105_schedule_entry_points_params_entry_packing ==
    << <<"clksrc", 31, 30>>, <<"actsubsch", 29, 27>> >>

sja1105_schedule_entry_points_entry_packing ==
    << <<"subschindx", 31, 29>>, <<"delta", 28, 11>>, <<"address", 10, 1>> >>

sja1105_schedule_params_entry_packing == Loop("subscheind", 8, 16, 10, 9, 0)

sja1105_schedule_entry_packing ==
    << <<"winstindex", 63, 54>>, <<"winend", 53, 53>>, <<"winst", 52, 52>>,
       <<"destports", 51, 47>>, <<"setvalid", 46, 46>>, <<"txen", 45, 45>>,
       <<"resmedia_en", 44, 44>>, <<"resmedia", 43, 36>>,
       <<"vlindex", 35, 26>>, <<"delta", 25, 8>> >>

sja1105_sgmii_entry_packing ==
    << <<"digital_error_cnt", 1151, 1120>>,
       <<"digital_control_2", 1119, 1088>>, <<"debug_control", 383, 352>>,
       <<"test_control", 351, 320>>, <<"autoneg_control", 287, 256>>,
       <<"digital_control_1", 255, 224>>, <<"autoneg_adv", 223, 192>>,
       <<"basic_control", 191, 160>> >>

\* the "Reserved areas" of sja1105_sgmii_entry_packing, written on PACK
\* only: <<tmp, start, end>>
sja1105_sgmii_reserved ==
    << <<0, 1087, 1056>>, <<0, 1055, 1024>>, <<0, 1023, 992>>,
       <<256, 991, 960>>, <<575, 959, 928>>, <<10, 927, 896>>,
       <<7202, 895, 864>>, <<1, 863, 832>>, <<3, 831, 800>>,
       <<0, 799, 768>>, <<1, 767, 736>>, <<5, 735, 704>>, <<257, 703, 672>>,
       <<0, 671, 640>>, <<1, 639, 608>>, <<0, 607, 576>>, <<10, 575, 544>>,
       <<0, 543, 512>>, <<0, 511, 480>>, <<0, 479, 448>>, <<0, 447, 416>>,
       <<35228, 415, 384>>, <<10, 319, 288>>, <<4, 159, 128>>,
       <<0, 127, 96>>, <<0, 95, 64>>, <<0, 63, 32>>, <<0, 31, 0>> >>

sja1105_vl_forwarding_params_entry_packing ==
    Loop("partspc", 8, 16, 10, 9, 0) \o << <<"debugen", 15, 15>> >>

sja1105_vl_forwarding_entry_packing ==
    << <<"type", 31, 31>>, <<"priority", 30, 28>>, <<"partition", 27, 25>>,
       <<"destports", 24, 20>> >>

\* egrmirr, ingrmirr and vlid are written under the names of the union
\* members they share storage with
sja1105_vl_lookup_entry_packing ==
    << <<"destports", 95, 91, "format", TRUE>>,
       <<"iscritical", 90, 90, "format", TRUE>>,
       <<"macaddr", 89, 42, "format", TRUE>>,
       <<"vlanid", 41, 30, "format", TRUE>>,
       <<"port", 29, 27, "format", TRUE>>,
       <<"vlanprior", 26, 24, "format", TRUE>>,
       <<"destports", 95, 91, "format", FALSE>>,
       <<"iscritical", 90, 90, "format", FALSE>>,
       <<"macaddr", 57, 42, "format", FALSE>>,
       <<"port", 29, 27, "format", FALSE>> >>

sja1105_vl_policing_entry_packing ==
    << <<"type", 63, 63>>, <<"maxlen", 62, 52>>, <<"sharindx", 51, 42>>,
       <<"bag", 41, 28, "type", TRUE>>, <<"jitter", 27, 18, "type", TRUE>> >>

sja1105_vlan_lookup_entry_packing ==
    << <<"ving_mirr", 63, 59>>, <<"vegr_mirr", 58, 54>>,
       <<"vmemb_port", 53, 49>>, <<"vlan_bc", 48, 44>>, <<"tag_port", 43, 39>>,
       <<"vlanid", 38, 27>> >>

\* "TODO not implemented": no member is packed or unpacked
sja1105_clk_sync_params_entry_packing == << >>

sja1105_retagging_entry_packing ==
    << <<"egr_port", 63, 59>>, <<"ing_port", 58, 54>>, <<"vlan_ing", 53, 42>>,
       <<"vlan_egr", 41, 30>>, <<"do_not_learn", 29, 29>>,
       <<"destports", 27, 23>> >>

sja1105_xmii_params_entry_packing ==
    Flatten([j \in 1..5 |->
        << <<Elem("xmii_mode", j - 1), 17 + 3 * (j - 1) + 1, 17 + 3 * (j - 1)>>,
           <<Elem("phy_mac", j - 1), 17 + 3 * (j - 1) + 2,
             17 + 3 * (j - 1) + 2>> >>])

sja1105_table_header_packing ==
    << <<"block_id", 31, 24>>, <<"len", 55, 32>>, <<"crc", 95, 64>> >>

\* ------------------------------------------------------------------------
\* sja1105_static_config.c: the per-switch operation tables

\* SIZE_<name> of sja1105_static_config.h
SIZE ==
    [SCHEDULE_ENTRY |-> 8, SCHEDULE_ENTRY_POINTS_ENTRY |-> 4,
     VL_LOOKUP_ENTRY |-> 12, VL_POLICING_ENTRY |-> 8, VL_FORWARDING_ENTRY |-> 4,
     L2_LOOKUP_ENTRY_ET |-> 12, L2_LOOKUP_ENTRY_PQRS |-> 20,
     L2_POLICING_ENTRY |-> 8, VLAN_LOOKUP_ENTRY |-> 8,
     L2_FORWARDING_ENTRY |-> 8, MAC_CONFIG_ENTRY_ET |-> 28,
     MAC_CONFIG_ENTRY_PQRS |-> 32, SCHEDULE_PARAMS_ENTRY |-> 12,
     SCHEDULE_ENTRY_POINTS_PARAMS_ENTRY |-> 4,
     VL_FORWARDING_PARAMS_ENTRY |-> 12, L2_LOOKUP_PARAMS_ENTRY_ET |-> 4,
     L2_LOOKUP_PARAMS_ENTRY_PQRS |-> 16, L2_FORWARDING_PARAMS_ENTRY |-> 12,
     CLK_SYNC_PARAMS_ENTRY |-> 52, AVB_PARAMS_ENTRY_ET |-> 12,
     AVB_PARAMS_ENTRY_PQRS |-> 16, GENERAL_PARAMS_ENTRY_ET |-> 40,
     GENERAL_PARAMS_ENTRY_PQRS |-> 44, RETAGGING_ENTRY |-> 8,
     XMII_PARAMS_ENTRY |-> 4, SGMII_ENTRY |-> 144]

\* MAX_<name>_COUNT of sja1105_static_config.h
MAX_COUNT ==
    [SCHEDULE |-> 1024, SCHEDULE_ENTRY_POINTS |-> 2048, VL_LOOKUP |-> 1024,
     VL_POLICING |-> 1024, VL_FORWARDING |-> 1024, L2_LOOKUP |-> 1024,
     L2_POLICING |-> 45, VLAN_LOOKUP |-> 4096, L2_FORWARDING |-> 13,
     MAC_CONFIG |-> 5, SCHEDULE_PARAMS |-> 1,
     SCHEDULE_ENTRY_POINTS_PARAMS |-> 1, VL_FORWARDING_PARAMS |-> 1,
     L2_LOOKUP_PARAMS |-> 1, L2_FORWARDING_PARAMS |-> 1, GENERAL_PARAMS |-> 1,
     RETAGGING |-> 32, XMII_PARAMS |-> 1, SGMII |-> 1, AVB_PARAMS |-> 1,
     CLK_SYNC |-> 1]

MAX_FRAME_MEMORY == 929
MAX_FRAME_MEMORY_RETAGGING == 910

\* One struct sja1105_table_ops: the codec, the words it writes into
\* reserved areas on PACK, the packed entry size and the entry limit.
Ops(codec, size, max) ==
    [packing |-> codec, reserved |-> << >>, packed_entry_size |-> size,
     max_entry_count |-> max, null |-> FALSE]

\* the "{ 0 }" initialiser: no codec (a NULL function pointer), sizes 0
NullOps ==
    [packing |-> << >>, reserved |-> << >>, packed_entry_size |-> 0,
     max_entry_count |-> 0, null |-> TRUE]

\* sja1105{e,t,p,q,r,s}_table_ops[k]
table_ops(v, k) ==
    LET et == v \in {"E", "T"}
        tte == v \in {"T", "Q", "S"}
    IN CASE k = "BLK_IDX_SCHEDULE" ->
              IF tte THEN Ops(sja1105_schedule_entry_packing,
                              SIZE.SCHEDULE_ENTRY, MAX_COUNT.SCHEDULE)
              ELSE NullOps
         [] k = "BLK_IDX_SCHEDULE_ENTRY_POINTS" ->
              IF tte THEN Ops(sja1105_schedule_entry_points_entry_packing,
                              SIZE.SCHEDULE_ENTRY_POINTS_ENTRY,
                              MAX_COUNT.SCHEDULE_ENTRY_POINTS)
              ELSE NullOps
         [] k = "BLK_IDX_VL_LOOKUP" ->
              IF tte THEN Ops(sja1105_vl_lookup_entry_packing,
                              SIZE.VL_LOOKUP_ENTRY, MAX_COUNT.VL_LOOKUP)
              ELSE NullOps
         [] k = "BLK_IDX_VL_POLICING" ->
              IF tte THEN Ops(sja1105_vl_policing_entry_packing,
                              SIZE.VL_POLICING_ENTRY, MAX_COUNT.VL_POLICING)
              ELSE NullOps
         [] k = "BLK_IDX_VL_FORWARDING" ->
              IF tte THEN Ops(sja1105_vl_forwarding_entry_packing,
                              SIZE.VL_FORWARDING_ENTRY, MAX_COUNT.VL_FORWARDING)
              ELSE NullOps
         [] k = "BLK_IDX_L2_LOOKUP" ->
              IF et THEN Ops(sja1105et_l2_lookup_entry_packing,
                             SIZE.L2_LOOKUP_ENTRY_ET, MAX_COUNT.L2_LOOKUP)
              ELSE Ops(sja1105pqrs_l2_lookup_entry_packing,
                       SIZE.L2_LOOKUP_ENTRY_PQRS, MAX_COUNT.L2_LOOKUP)
         [] k = "BLK_IDX_L2_POLICING" ->
              Ops(sja1105_l2_policing_entry_packing, SIZE.L2_POLICING_ENTRY,
                  MAX_COUNT.L2_POLICING)
         [] k = "BLK_IDX_VLAN_LOOKUP" ->
              Ops(sja1105_vlan_lookup_entry_packing, SIZE.VLAN_LOOKUP_ENTRY,
                  MAX_COUNT.VLAN_LOOKUP)
         [] k = "BLK_IDX_L2_FORWARDING" ->
              Ops(sja1105_l2_forwarding_entry_packing, SIZE.L2_FORWARDING_ENTRY,
                  MAX_COUNT.L2_FORWARDING)
         [] k = "BLK_IDX_MAC_CONFIG" ->
              IF et THEN Ops(sja1105et_mac_config_entry_packing,
                             SIZE.MAC_CONFIG_ENTRY_ET, MAX_COUNT.MAC_CONFIG)
              ELSE Ops(sja1105pqrs_mac_config_entry_packing,
                       SIZE.MAC_CONFIG_ENTRY_PQRS, MAX_COUNT.MAC_CONFIG)
         [] k = "BLK_IDX_SCHEDULE_PARAMS" ->
              IF tte THEN Ops(sja1105_schedule_params_entry_packing,
                              SIZE.SCHEDULE_PARAMS_ENTRY,
                              MAX_COUNT.SCHEDULE_PARAMS)
              ELSE NullOps
         [] k = "BLK_IDX_SCHEDULE_ENTRY_POINTS_PARAMS" ->
              IF tte
              THEN Ops(sja1105_schedule_entry_points_params_entry_packing,
                       SIZE.SCHEDULE_ENTRY_POINTS_PARAMS_ENTRY,
                       MAX_COUNT.SCHEDULE_ENTRY_POINTS_PARAMS)
              ELSE NullOps
         [] k = "BLK_IDX_VL_FORWARDING_PARAMS" ->
              IF tte THEN Ops(sja1105_vl_forwarding_params_entry_packing,
                              SIZE.VL_FORWARDING_PARAMS_ENTRY,
                              MAX_COUNT.VL_FORWARDING_PARAMS)
              ELSE NullOps
         [] k = "BLK_IDX_L2_LOOKUP_PARAMS" ->
              IF et THEN Ops(sja1105et_l2_lookup_params_entry_packing,
                             SIZE.L2_LOOKUP_PARAMS_ENTRY_ET,
                             MAX_COUNT.L2_LOOKUP_PARAMS)
              ELSE Ops(sja1105pqrs_l2_lookup_params_entry_packing,
                       SIZE.L2_LOOKUP_PARAMS_ENTRY_PQRS,
                       MAX_COUNT.L2_LOOKUP_PARAMS)
         [] k = "BLK_IDX_L2_FORWARDING_PARAMS" ->
              Ops(sja1105_l2_forwarding_params_entry_packing,
                  SIZE.L2_FORWARDING_PARAMS_ENTRY,
                  MAX_COUNT.L2_FORWARDING_PARAMS)
         [] k = "BLK_IDX_CLK_SYNC_PARAMS" ->
              IF tte THEN Ops(sja1105_clk_sync_params_entry_packing,
                              SIZE.CLK_SYNC_PARAMS_ENTRY, MAX_COUNT.CLK_SYNC)
              ELSE NullOps
         [] k = "BLK_IDX_AVB_PARAMS" ->
              IF et THEN Ops(sja1105et_avb_params_entry_packing,
                             SIZE.AVB_PARAMS_ENTRY_ET, MAX_COUNT.AVB_PARAMS)
              ELSE Ops(sja1105pqrs_avb_params_entry_packing,
                       SIZE.AVB_PARAMS_ENTRY_PQRS, MAX_COUNT.AVB_PARAMS)
         [] k = "BLK_IDX_GENERAL_PARAMS" ->
              IF et THEN Ops(sja1105et_general_params_entry_packing,
                             SIZE.GENERAL_PARAMS_ENTRY_ET,
                             MAX_COUNT.GENERAL_PARAMS)
              ELSE Ops(sja1105pqrs_general_params_entry_packing,
                       SIZE.GENERAL_PARAMS_ENTRY_PQRS,
                       MAX_COUNT.GENERAL_PARAMS)
         [] k = "BLK_IDX_RETAGGING" ->
              Ops(sja1105_retagging_entry_packing, SIZE.RETAGGING_ENTRY,
                  MAX_COUNT.RETAGGING)
         [] k = "BLK_IDX_XMII_PARAMS" ->
              Ops(sja1105_xmii_params_entry_packing, SIZE.XMII_PARAMS_ENTRY,
                  MAX_COUNT.XMII_PARAMS)
         [] k = "BLK_IDX_SGMII" ->
              IF v \in {"R", "S"}
              THEN [Ops(sja1105_sgmii_entry_packing, SIZE.SGMII_ENTRY,
                        MAX_COUNT.SGMII)
                    EXCEPT !.reserved = sja1105_sgmii_reserved]
              ELSE NullOps

\* ------------------------------------------------------------------------
\* sja1105_static_config.c: packing wrappers, CRC, headers

\* A buffer handed to packing() is a function on 0..len-1; a static
\* configuration buffer is the sequence of its bytes.
ZeroBuf(len) == Eval([a \in 0..(len - 1) |-> {}])
BufToSeq(b, len) == Eval([i \in 1..len |-> b[i - 1]])
\* the len bytes at byte offset off of the sequence s
SeqToBuf(s, off, len) == Eval([a \in 0..(len - 1) |-> s[off + a + 1]])

\* sja1105_packing(): packing() with QUIRK_LSW32_IS_FIRST; an error is
\* printed and swallowed, and leaves the buffer and the value as they were.
sja1105_packing(buf, val, start, end, len, op, ub) ==
    packing(buf, val, start, end, len, op, {QUIRK_LSW32_IS_FIRST}, ub)

sja1105_pack(buf, val, start, end, len, ub) ==
    packing(buf, val, start, end, len, PACK, {QUIRK_LSW32_IS_FIRST}, ub).pbuf

sja1105_unpack(buf, start, end, len, ub) ==
    packing(buf, {}, start, end, len, UNPACK, {QUIRK_LSW32_IS_FIRST}, ub).uval

\* table->ops->packing(buf, entry_ptr, op) for a codec given as its call
\* sequence: st is [buf, entry].
\* what a sja1105_packing() call that returned r leaves in the buffer and in
\* the member of the entry
field_packed(st, member, r) ==
    [buf |-> r.pbuf, entry |-> [st.entry EXCEPT ![member] = r.uval]]

\* one sja1105_packing(buf, &entry->member, start, end, size, op) call fd of
\* a codec, under its condition if it has one
field_packing(st, fd, size, op, ub) ==
    IF Len(fd) = 3 \/ (st.entry[fd[4]] = {}) = fd[5]
    THEN field_packed(st, fd[1],
                      sja1105_packing(st.buf, st.entry[fd[1]], fd[2], fd[3],
                                      size, op, ub))
    ELSE st

fields_packing(st, fields, size, op, ub) ==
    ForLoop(LAMBDA fs, n : field_packing(fs, fields[n], size, op, ub),
            st, 1, Len(fields))

\* tmp = <value>; sja1105_pack(buf, &tmp, start, end, size);
reserved_packing(buf, words, size, ub) ==
    ForLoop(LAMBDA b, n : sja1105_pack(b, BitsOf(words[n][1]), words[n][2],
                                       words[n][3], size, ub),
            buf, 1, Len(words))

\* the reserved words, which only the PACK direction writes
entry_reserved(st, ops, op, ub) ==
    IF op = PACK
    THEN [st EXCEPT !.buf = reserved_packing(@, ops.reserved,
                                             ops.packed_entry_size, ub)]
    ELSE st

entry_packing(ops, buf, entry, op, ub) ==
    entry_reserved(fields_packing([buf |-> buf, entry |-> entry], ops.packing,
                                  ops.packed_entry_size, op, ub),
                   ops, op, ub)

Xor(a, b) == (a \ b) \cup (b \ a)

\* crc32_le() of the kernel: reflected CRC-32, polynomial 0xEDB88320, one
\* byte at a time through the 256-entry table crc32table_le.
CRCPOLY_LE == {5, 8, 9, 15, 19, 20, 21, 23, 24, 26, 27, 29, 30, 31}

\* crc = (crc >> 1) ^ ((crc & 1) ? CRCPOLY_LE : 0)
crc32_le_bit(crc) ==
    LET shifted == {b - 1 : b \in crc \ {0}}
    IN IF 0 \in crc THEN Xor(shifted, CRCPOLY_LE) ELSE shifted

\* crc32table_le[1 << i] for i in 0..7: eight steps on the byte 1 << i
crc32table_le_bit ==
    Eval([i \in U8Bits |->
             crc32_le_bit(crc32_le_bit(crc32_le_bit(crc32_le_bit(
             crc32_le_bit(crc32_le_bit(crc32_le_bit(crc32_le_bit({i}))))))))])

\* crc32table_le[x]: the steps are linear over GF(2), so the entry of x is
\* the XOR of the entries of the bits of x
crc32table_le(x) ==
    {b \in 0..31 : Cardinality({i \in x : b \in crc32table_le_bit[i]}) % 2 = 1}

\* crc = (crc >> 8) ^ crc32table_le[(crc ^ byte) & 255]
crc32_le_byte(crc, byte) ==
    Xor({b - 8 : b \in crc \ U8Bits}, crc32table_le(Xor(crc, byte) \cap U8Bits))

crc32_le(crc, bytes) ==
    ForLoop(LAMBDA c0, n : crc32_le_byte(c0, bytes[n]), crc, 1, Len(bytes))

\* (u8 *) &word on a little-endian CPU: the four low bytes of the u64, least
\* significant first
WordBytes(word) ==
    Eval([k \in 1..4 |->
             {b - 8 * (k - 1) : b \in word \cap ((8 * (k - 1))..(8 * k - 1))}])

\* sja1105_unpack(buf + i, &word, 31, 0, 4); crc = crc32_le(crc, &word, 4)
sja1105_crc32_word(crc, s, i, ub) ==
    crc32_le(crc, WordBytes(sja1105_unpack(SeqToBuf(s, i, 4), 31, 0, 4, ub)))

\* u32 sja1105_crc32(buf, len), buf given as the byte sequence s:
\* crc = ~0; for (i = 0; i < len; i += 4) <one word>; return ~crc
\* sja1105_crc32() that leaves the last word of the buffer out
sja1105_crc32_short(s, len, ub) ==
    (0..31) \ ForLoop(LAMBDA c, n : sja1105_crc32_word(c, s, 4 * n, ub),
                      0..31, 0, ((len + 3) \div 4) - 2)

sja1105_crc32(s, len, ub) ==
    (0..31) \ ForLoop(LAMBDA c, n : sja1105_crc32_word(c, s, 4 * n, ub),
                      0..31, 0, ((len + 3) \div 4) - 1)

HeaderFields == {"block_id", "len", "crc"}

\* sja1105_table_header_packing(buf, hdr, PACK) into a zeroed 12-byte buffer
header_pack(hdr, ub) ==
    fields_packing([buf |-> ZeroBuf(SIZE_TABLE_HEADER), entry |-> hdr],
                   sja1105_table_header_packing, SIZE_TABLE_HEADER, PACK,
                   ub).buf

\* memset(&hdr, 0, ...); sja1105_table_header_packing(p, &hdr, UNPACK)
header_unpack(buf, ub) ==
    fields_packing([buf |-> buf, entry |-> [f \in HeaderFields |-> {}]],
                   sja1105_table_header_packing, SIZE_TABLE_HEADER, UNPACK,
                   ub).entry

\* the packed header b1 with the four bytes tail as its last word
header_crc_packed(b1, tail) ==
    Eval([a \in 0..(SIZE_TABLE_HEADER - 1) |->
             IF a >= SIZE_TABLE_HEADER - 4
             THEN tail[a - (SIZE_TABLE_HEADER - 4)] ELSE b1[a]])

\* hdr->crc = sja1105_crc32(buf, SIZE_TABLE_HEADER - 4);
\* sja1105_pack(buf + SIZE_TABLE_HEADER - 4, &hdr->crc, 31, 0, 4);
header_with_crc(hdr, b1, crc, ub) ==
    [buf |-> header_crc_packed(b1,
                 sja1105_pack(Eval([c \in 0..3 |->
                                       b1[SIZE_TABLE_HEADER - 4 + c]]),
                              crc, 31, 0, 4, ub)),
     hdr |-> [hdr EXCEPT !.crc = crc]]

header_packed_crc(hdr, b1, ub) ==
    header_with_crc(hdr, b1,
                    sja1105_crc32(BufToSeq(b1, SIZE_TABLE_HEADER),
                                  SIZE_TABLE_HEADER - 4, ub),
                    ub)

\* sja1105_table_header_pack_with_crc(): [buf, hdr] with hdr->crc updated
sja1105_table_header_pack_with_crc(hdr, ub) ==
    header_packed_crc(hdr, header_pack(hdr, ub), ub)

\* sja1105_table_write_crc(): the 4 bytes written at crc_ptr
sja1105_table_write_crc(data, ub) ==
    BufToSeq(sja1105_pack(ZeroBuf(4), sja1105_crc32(data, Len(data), ub),
                          31, 0, 4, ub), 4)

\* ------------------------------------------------------------------------
\* sja1105_static_config.c: the static configuration.
\* A configuration is [device_id, variant, tables]: variant names the ops
\* table the tables[].ops pointers were set to by sja1105_static_config_init;
\* a table is [entry_count, entries], entries being the allocated array.

EmptyTable == [entry_count |-> 0, entries |-> << >>]

\* sja1105_static_config_init(config, device_id, part_nr) for the switch v
sja1105_static_config_init(v) ==
    [device_id |-> VariantDeviceId(v), variant |-> v,
     tables |-> [k \in BlkIdx |-> EmptyTable]]

AddInt32(a, b) ==
    IF a >= 0 /\ b >= 0 /\ a > 2147483647 - b
    THEN ((a - 1073741824) - 1073741824) + ((b - 1073741824) - 1073741824)
    ELSE IF a < 0 /\ b < 0 /\ a < (-2147483647 - 1) - b
    THEN ((a + 1073741824) + 1073741824) + ((b + 1073741824) + 1073741824)
    ELSE a + b

\* for (i = 0; i < 8; i++) mem += entry-><m>[i];   (mem is an int)
RECURSIVE sum_partitions(_, _, _, _)
sum_partitions(mem, entry, m, i) ==
    IF i >= 8 THEN mem
    ELSE sum_partitions(AddInt32(mem, ToInt(entry[Elem(m, i)])), entry, m,
                        i + 1)

\* a check against MAX_FRAME_MEMORY whatever the retagging table holds
check_memory_size_one_budget(tables) ==
    IF AddInt32(sum_partitions(0,
                    tables["BLK_IDX_L2_FORWARDING_PARAMS"].entries[1],
                    "part_spc", 0),
                IF tables["BLK_IDX_VL_FORWARDING_PARAMS"].entry_count # 0
                THEN sum_partitions(0,
                         tables["BLK_IDX_VL_FORWARDING_PARAMS"].entries[1],
                         "partspc", 0)
                ELSE 0) > MAX_FRAME_MEMORY
    THEN Validity("SJA1105_OVERCOMMITTED_FRAME_MEMORY")
    ELSE SJA1105_CONFIG_OK

static_config_check_memory_size(tables) ==
    LET mem1 == sum_partitions(0,
                    tables["BLK_IDX_L2_FORWARDING_PARAMS"].entries[1],
                    "part_spc", 0)
        mem == IF tables["BLK_IDX_VL_FORWARDING_PARAMS"].entry_count # 0
               THEN sum_partitions(mem1,
                        tables["BLK_IDX_VL_FORWARDING_PARAMS"].entries[1],
                        "partspc", 0)
               ELSE mem1
        max_mem == IF tables["BLK_IDX_RETAGGING"].entry_count # 0
                   THEN MAX_FRAME_MEMORY_RETAGGING ELSE MAX_FRAME_MEMORY
    IN IF mem > max_mem THEN Validity("SJA1105_OVERCOMMITTED_FRAME_MEMORY")
       ELSE SJA1105_CONFIG_OK

\* a validation with one outcome for all the required tables
check_valid_one_outcome(config) ==
    IF \E k \in {"BLK_IDX_L2_FORWARDING", "BLK_IDX_MAC_CONFIG",
                  "BLK_IDX_L2_FORWARDING_PARAMS", "BLK_IDX_GENERAL_PARAMS",
                  "BLK_IDX_XMII_PARAMS"} :
          config.tables[k].entry_count
              # table_ops(config.variant, k).max_entry_count
    THEN Validity("SJA1105_MISSING_L2_FORWARDING_TABLE")
    ELSE static_config_check_memory_size(config.tables)

sja1105_static_config_check_valid(config) ==
    LET tables == config.tables
        count(k) == tables[k].entry_count
        max(k) == table_ops(config.variant, k).max_entry_count
    IN IF ~DEVICE_ID_VALID(config.device_id)
       THEN Validity("SJA1105_DEVICE_ID_INVALID")
       ELSE IF count("BLK_IDX_SCHEDULE") # 0
               /\ ~SUPPORTS_TTETHERNET(config.device_id)
       THEN Validity("SJA1105_TTETHERNET_NOT_SUPPORTED")
       ELSE IF count("BLK_IDX_SCHEDULE") # 0
               /\ \E k \in {"BLK_IDX_SCHEDULE_ENTRY_POINTS",
                            "BLK_IDX_SCHEDULE_PARAMS",
                            "BLK_IDX_SCHEDULE_ENTRY_POINTS_PARAMS"} :
                     count(k) # max(k)
       THEN Validity("SJA1105_INCORRECT_TTETHERNET_CONFIGURATION")
       ELSE IF count("BLK_IDX_VL_LOOKUP") # 0
               /\ \/ count("BLK_IDX_VL_POLICING") = 0
                  \/ count("BLK_IDX_VL_FORWARDING") = 0
                  \/ count("BLK_IDX_VL_FORWARDING_PARAMS")
                       # max("BLK_IDX_VL_FORWARDING_PARAMS")
       THEN Validity("SJA1105_INCORRECT_VIRTUAL_LINK_CONFIGURATION")
       ELSE IF count("BLK_IDX_L2_POLICING") = 0
       THEN Validity("SJA1105_MISSING_L2_POLICING_TABLE")
       ELSE IF count("BLK_IDX_VLAN_LOOKUP") = 0
       THEN Validity("SJA1105_MISSING_VLAN_TABLE")
       ELSE IF count("BLK_IDX_L2_FORWARDING") # max("BLK_IDX_L2_FORWARDING")
       THEN Validity("SJA1105_MISSING_L2_FORWARDING_TABLE")
       ELSE IF count("BLK_IDX_MAC_CONFIG") # max("BLK_IDX_MAC_CONFIG")
       THEN Validity("SJA1105_MISSING_MAC_TABLE")
       ELSE IF count("BLK_IDX_L2_FORWARDING_PARAMS")
                 # max("BLK_IDX_L2_FORWARDING_PARAMS")
       THEN Validity("SJA1105_MISSING_L2_FORWARDING_PARAMS_TABLE")
       ELSE IF count("BLK_IDX_GENERAL_PARAMS") # max("BLK_IDX_GENERAL_PARAMS")
       THEN Validity("SJA1105_MISSING_GENERAL_PARAMS_TABLE")
       ELSE IF count("BLK_IDX_XMII_PARAMS") # max("BLK_IDX_XMII_PARAMS")
       THEN Validity("SJA1105_MISSING_XMII_TABLE")
       ELSE static_config_check_memory_size(tables)

\* the entries of a table packed one after the other
entries_joined(packed, count, size) ==
    Eval([b \in 1..(count * size) |->
             packed[((b - 1) \div size) + 1][(b - 1) % size]])

\* for (j = 0; j < table->entry_count; j++) {
\*         table->ops->packing(p, entry_ptr, PACK);
\*         p += table->ops->packed_entry_size; }
pack_entries(table, ops, ub) ==
    entries_joined(
        Eval([j \in 1..table.entry_count |->
                 entry_packing(ops, ZeroBuf(ops.packed_entry_size),
                               table.entries[j], PACK, ub).buf]),
        table.entry_count, ops.packed_entry_size)

\* the bytes of one table: its header h, its entries data, the CRC of data
table_packed(st, h, data, ub) ==
    [buf |-> st.buf \o BufToSeq(h.buf, SIZE_TABLE_HEADER)
                \o data \o sja1105_table_write_crc(data, ub),
     crc |-> h.hdr.crc]

\* one iteration of the table loop of sja1105_static_config_pack(); st is
\* [buf, crc], buf the bytes written so far and crc the value left in
\* header.crc
pack_one_table(st, block_id, table, ops, ub) ==
    IF table.entry_count = 0 THEN st
    ELSE table_packed(st,
             sja1105_table_header_pack_with_crc(
                 [block_id |-> BitsOf(block_id),
                  len |-> BitsOf((table.entry_count * ops.packed_entry_size)
                                    \div 4),
                  crc |-> st.crc], ub),
             pack_entries(table, ops, ub), ub)

pack_table(config, st, i, ub) ==
    pack_one_table(st, blk_id_map[BlkIdxOrder[i]],
                   config.tables[BlkIdxOrder[i]],
                   table_ops(config.variant, BlkIdxOrder[i]), ub)

\* for (i = 0; i < BLK_IDX_MAX; i++)
pack_tables(config, st, ub) ==
    ForLoop(LAMBDA ts, n : pack_table(config, ts, n, ub), st, 1, BLK_IDX_MAX)

\* 0xDEADBEEF
FinalHeaderCrc == Word32(57005, 48879)

\* void sja1105_static_config_pack(buf, config): the bytes written
sja1105_static_config_pack(config, ub) ==
    pack_tables(config,
                [buf |-> BufToSeq(sja1105_pack(ZeroBuf(SIZE_SJA1105_DEVICE_ID),
                                               config.device_id, 31, 0, 4, ub),
                                  SIZE_SJA1105_DEVICE_ID),
                 crc |-> {}],
                ub).buf
    \o BufToSeq(header_pack([block_id |-> {}, len |-> {},
                             crc |-> FinalHeaderCrc], ub),
                SIZE_TABLE_HEADER)

RECURSIVE get_length_loop(_, _, _, _)
get_length_loop(config, i, sum, header_count) ==
    IF i > BLK_IDX_MAX
    THEN sum + header_count * (SIZE_TABLE_HEADER + 4) - 4
    ELSE LET k == BlkIdxOrder[i]
             table == config.tables[k]
         IN get_length_loop(config, i + 1,
                sum + table_ops(config.variant, k).packed_entry_size
                        * table.entry_count,
                IF table.entry_count # 0 THEN header_count + 1
                ELSE header_count)

sja1105_static_config_get_length(config) ==
    get_length_loop(config, 1, SIZE_SJA1105_DEVICE_ID, 1)

\* the table with entry as its next entry
table_with_entry(table, at, entry) ==
    [entry_count |-> at,
     entries |-> Eval([j \in 1..(IF at > Len(table.entries) THEN at
                                 ELSE Len(table.entries)) |->
                          IF j = at THEN entry ELSE table.entries[j]])]

\* sja1105_table_add_entry(table, buf): [rc, table]; p is the offset of buf
\* in the configuration buffer s
sja1105_table_add_entry(table, ops, k, s, p, ub) ==
    IF table.entry_count >= ops.max_entry_count
    THEN [rc |-> -ERANGE, table |-> table]
    ELSE [rc |-> ops.packed_entry_size,
          table |-> table_with_entry(table, table.entry_count + 1,
                        entry_packing(ops,
                                      SeqToBuf(s, p, ops.packed_entry_size),
                                      ZeroEntry(k), UNPACK, ub).entry)]

\* if (bytes < 0) return ...; p += bytes;
entry_added(es, r) ==
    IF r.rc < 0 THEN [rc |-> r.rc, p |-> es.p, table |-> r.table]
    ELSE [rc |-> 0, p |-> es.p + r.rc, table |-> r.table]

\* while (p < table_end) { bytes = sja1105_table_add_entry(table, p);
\*                         if (bytes < 0) return ...; p += bytes; }
\* The result is [rc, p, table]; every pass that does not return moves p by
\* packed_entry_size, which bounds the number of passes.
unpack_entries(table, ops, k, s, p, table_end, ub) ==
    ForLoop(LAMBDA es, n :
                IF es.rc < 0 \/ es.p >= table_end THEN es
                ELSE entry_added(es, sja1105_table_add_entry(es.table, ops, k,
                                                             s, es.p, ub)),
            [rc |-> 0, p |-> p, table |-> table],
            1, ((table_end - p) \div ops.packed_entry_size) + 1)

sja1105_static_config_patch_vllupformat(config) ==
    LET vllupformat ==
            config.tables["BLK_IDX_GENERAL_PARAMS"].entries[1]["vllupformat"]
    IN [config EXCEPT !.tables["BLK_IDX_VL_LOOKUP"].entries =
            Eval([j \in 1..Len(@) |->
                     IF j <= config.tables["BLK_IDX_VL_LOOKUP"].entry_count
                     THEN [@[j] EXCEPT !["format"] = vllupformat] ELSE @[j]])]

\* return v; from inside the loop, the configuration being c by then
unpack_return(us, v, c) == [us EXCEPT !.done = TRUE, !.rc = v, !.config = c]

\* the table blk_idx, nbytes long, has been unpacked with result r = [rc, p,
\* table]: the checks of the entries and of the CRC that follows them
unpack_table_end(us, s, blk_idx, nbytes, r, ub) ==
    LET config2 == [us.config EXCEPT !.tables[blk_idx] = r.table]
        p2 == us.p + SIZE_TABLE_HEADER
        len2 == (us.buf_len - SIZE_TABLE_HEADER) - nbytes
    IN IF r.rc < 0
       THEN unpack_return(us, Validity("SJA1105_INVALID_TABLE_HEADER"), config2)
       ELSE IF r.p # p2 + nbytes
       THEN unpack_return(us, Validity("SJA1105_INCORRECT_TABLE_LENGTH"),
                          config2)
       ELSE IF len2 < 4
       THEN unpack_return(us, Validity("SJA1105_UNEXPECTED_END_OF_BUFFER"),
                          config2)
       ELSE IF sja1105_crc32(BufToSeq(SeqToBuf(s, p2, nbytes), nbytes), nbytes,
                             ub)
                 # sja1105_unpack(SeqToBuf(s, p2 + nbytes, 4), 31, 0, 4, ub)
       THEN unpack_return(us, Validity("SJA1105_DATA_CRC_INVALID"), config2)
       ELSE [done |-> FALSE, rc |-> 0, p |-> p2 + nbytes + 4,
             buf_len |-> len2 - 4, config |-> config2]

\* the header names the table blk_idx with nbytes of entries: the checks of
\* the block, the allocation of the entries and their unpacking
unpack_table(us, s, blk_idx, ops, nbytes, alloc_ok, ub) ==
    IF blk_idx = BLK_IDX_INVAL THEN unpack_return(us, -EINVAL, us.config)
    ELSE IF us.config.tables[blk_idx].entry_count # 0
    THEN unpack_return(us, -EINVAL, us.config)
    ELSE IF ~alloc_ok THEN unpack_return(us, -ENOMEM, us.config)
    ELSE unpack_table_end(us, s, blk_idx, nbytes,
             unpack_entries(
                 [entry_count |-> 0,
                  entries |-> Eval([j \in 1..(nbytes
                                               \div ops.packed_entry_size) |->
                                       ZeroEntry(blk_idx)])],
                 ops, blk_idx, s, us.p + SIZE_TABLE_HEADER,
                 us.p + SIZE_TABLE_HEADER + nbytes, ub),
             ub)

\* the header hdr has been unpacked at p: its checks
unpack_header(us, s, hdr, alloc_ok, ub) ==
    IF hdr.len = {}
    THEN IF us.buf_len - SIZE_TABLE_HEADER # 0
         THEN unpack_return(us, Validity("SJA1105_EXTRA_BYTES_AT_END_OF_BUFFER"),
                            us.config)
         ELSE unpack_return(us, SJA1105_CONFIG_OK,
                            sja1105_static_config_patch_vllupformat(us.config))
    ELSE IF hdr.crc \cap (0..31)
              # sja1105_crc32(BufToSeq(SeqToBuf(s, us.p, SIZE_TABLE_HEADER - 4),
                                       SIZE_TABLE_HEADER - 4),
                              SIZE_TABLE_HEADER - 4, ub)
    THEN unpack_return(us, Validity("SJA1105_INVALID_TABLE_HEADER_CRC"),
                       us.config)
    ELSE IF us.buf_len - SIZE_TABLE_HEADER < ToInt(hdr.len) * 4
    THEN unpack_return(us, Validity("SJA1105_UNEXPECTED_END_OF_BUFFER"),
                       us.config)
    ELSE unpack_table(us, s, blk_idx_from_blk_id(ToInt(hdr.block_id)),
                      table_ops(us.config.variant,
                                blk_idx_from_blk_id(ToInt(hdr.block_id))),
                      ToInt(hdr.len) * 4, alloc_ok, ub)

\* one pass of the "while (1)" loop of sja1105_static_config_unpack(); us is
\* [done, rc, p, buf_len, config], done once the function has returned rc.
\* alloc_ok tells whether kcalloc() returns memory.
unpack_pass(us, s, alloc_ok, ub) ==
    IF us.done THEN us
    ELSE IF us.buf_len < SIZE_TABLE_HEADER
    THEN unpack_return(us, Validity("SJA1105_UNEXPECTED_END_OF_BUFFER"),
                       us.config)
    ELSE unpack_header(us, s,
                       header_unpack(SeqToBuf(s, us.p, SIZE_TABLE_HEADER), ub),
                       alloc_ok, ub)

\* while (1) { ... }: a pass that does not return consumes a table header
\* and a data CRC at least, which bounds the number of passes.
unpack_loop(s, p, buf_len, config, alloc_ok, ub) ==
    ForLoop(LAMBDA us, n : unpack_pass(us, s, alloc_ok, ub),
            [done |-> FALSE, rc |-> 0, p |-> p, buf_len |-> buf_len,
             config |-> config],
            1, (buf_len \div (SIZE_TABLE_HEADER + 4)) + 1)

\* what the loop left: [rc, config]
unpack_result(us) == [rc |-> us.rc, config |-> us.config]

\* the device id has been unpacked from the first four bytes
unpack_tables(s, buf_len, config, device_id, alloc_ok, ub) ==
    IF ~DEVICE_ID_VALID(device_id)
    THEN [rc |-> Validity("SJA1105_INVALID_DEVICE_ID"),
          config |-> [config EXCEPT !.device_id = device_id]]
    ELSE unpack_result(unpack_loop(s, SIZE_SJA1105_DEVICE_ID, buf_len - 4,
                                   [config EXCEPT !.device_id = device_id],
                                   alloc_ok, ub))

\* sja1105_static_config_unpack(buf, buf_len, config): [rc, config]
sja1105_static_config_unpack(s, buf_len, config, alloc_ok, ub) ==
    IF buf_len < 4
    THEN [rc |-> Validity("SJA1105_UNEXPECTED_END_OF_BUFFER"),
          config |-> config]
    ELSE unpack_tables(s, buf_len, config,
                       sja1105_unpack(SeqToBuf(s, 0, 4), 31, 0, 4, ub),
                       alloc_ok, ub)

\* ------------------------------------------------------------------------
\* sja1105_main.c: the tables the driver builds at probe time

\* a 48-bit value given as three 16-bit parts
Word48(hi16, mid16, lo16) == Word32(mid16, lo16) \cup {b + 32 : b \in BitsOf(hi16)}

\* an entry of kind k whose members named in vals have the given values
\* (bit sets) and whose other members are 0
Entry(k, vals) ==
    Eval([f \in StructFields(k) |-> IF f \in DOMAIN vals THEN vals[f] ELSE {}])

SJA1105_NUM_PORTS == 5
SJA1105_NUM_TC == 8

\* the CPU port of the board (dsa_upstream_port())
UpstreamPort == 4

default_mac ==
    Entry("BLK_IDX_MAC_CONFIG",
          [f \in Arr("top", 8) \cup Arr("base", 8) \cup Arr("enabled", 8)
                 \cup {"maxage"} |->
              IF f = "maxage" THEN BitsOf(255)
              ELSE IF f \in Arr("enabled", 8) THEN {0}
              ELSE LET i == CHOOSE j \in 0..7 :
                               f \in {Elem("top", j), Elem("base", j)}
                   IN IF f = Elem("top", i) THEN BitsOf(64 * i + 63)
                      ELSE BitsOf(64 * i)])

default_l2_lookup_params ==
    Entry("BLK_IDX_L2_LOOKUP_PARAMS",
          [dyn_tbsz |-> BitsOf(4), poly |-> BitsOf(151), no_mgmt_learn |-> {0}])

\* l2fwd[] after sja1105_init_l2_forwarding()
l2fwd(i) ==
    IF i < SJA1105_NUM_PORTS
    THEN LET peers == IF i = UpstreamPort
                      THEN (0..(SJA1105_NUM_PORTS - 1)) \ {UpstreamPort}
                      ELSE {UpstreamPort}
         IN Entry("BLK_IDX_L2_FORWARDING",
                  [f \in {"bc_domain", "reach_port", "fl_domain"}
                         \cup Arr("vlan_pmap", SJA1105_NUM_TC) |->
                      IF f \in {"bc_domain", "reach_port", "fl_domain"}
                      THEN peers
                      ELSE BitsOf(CHOOSE j \in 0..7 : f = Elem("vlan_pmap", j))])
    ELSE Entry("BLK_IDX_L2_FORWARDING",
               [f \in Arr("vlan_pmap", SJA1105_NUM_PORTS) |->
                   BitsOf(i - SJA1105_NUM_PORTS)])

default_l2fwd_params ==
    Entry("BLK_IDX_L2_FORWARDING_PARAMS",
          [f \in {Elem("part_spc", 0)} |-> BitsOf(MAX_FRAME_MEMORY)])

\* 0x0180C2000000, 0xFFFFFF000000, 0x011B19000000, ETH_P_EDSA = 0xDADA
default_general_params ==
    Entry("BLK_IDX_GENERAL_PARAMS",
          [mac_fltres1 |-> Word48(384, 49664, 0),
           mac_flt1 |-> Word48(65535, 65280, 0),
           mac_fltres0 |-> Word48(283, 6400, 0),
           mac_flt0 |-> Word48(65535, 65280, 0),
           tpid |-> BitsOf(56026), tpid2 |-> BitsOf(56026),
           host_port |-> BitsOf(UpstreamPort),
           mirr_port |-> BitsOf(UpstreamPort),
           casc_port |-> BitsOf(SJA1105_NUM_PORTS)])

\* policer k after sja1105_init_l2_policing()
policing(k) ==
    Entry("BLK_IDX_L2_POLICING",
          [sharindx |-> BitsOf(k), smax |-> BitsOf(65535),
           rate |-> BitsOf(64000), maxlen |-> BitsOf(2043)])

\* XMII_MODE_RGMII on every port, each port a MAC
default_xmii ==
    Entry("BLK_IDX_XMII_PARAMS",
          [f \in Arr("xmii_mode", SJA1105_NUM_PORTS) |-> BitsOf(2)])

Table(entries) == [entry_count |-> Len(entries), entries |-> entries]

\* The static configuration of switch v after the sja1105_init_*() functions
\* of sja1105_static_config_load(), with npol policers.
sja1105_static_config_load(v, npol) ==
    [sja1105_static_config_init(v) EXCEPT
        !.tables["BLK_IDX_MAC_CONFIG"] =
            Table([i \in 1..SJA1105_NUM_PORTS |-> default_mac]),
        !.tables["BLK_IDX_XMII_PARAMS"] = Table(<<default_xmii>>),
        !.tables["BLK_IDX_L2_LOOKUP_PARAMS"] =
            Table(<<default_l2_lookup_params>>),
        !.tables["BLK_IDX_VLAN_LOOKUP"] =
            Table(<<ZeroEntry("BLK_IDX_VLAN_LOOKUP")>>),
        !.tables["BLK_IDX_L2_FORWARDING"] =
            Table([i \in 1..MAX_COUNT.L2_FORWARDING |-> l2fwd(i - 1)]),
        !.tables["BLK_IDX_L2_FORWARDING_PARAMS"] = Table(<<default_l2fwd_params>>),
        !.tables["BLK_IDX_GENERAL_PARAMS"] = Table(<<default_general_params>>),
        !.tables["BLK_IDX_L2_POLICING"] = Table([k \in 1..npol |-> policing(k - 1)])]

\* ------------------------------------------------------------------------
\* The static configuration specification: a configuration is built, packed
\* by sja1105_static_config_pack() and the buffer parsed by
\* sja1105_static_config_unpack() into a freshly initialised configuration.

MaxPolicers == 2

\* retagging rules a caller may have added to the configuration
RetaggingChoices ==
    { << >>,
      << Entry("BLK_IDX_RETAGGING",
               [egr_port |-> {1}, ing_port |-> {0}, vlan_ing |-> BitsOf(100),
                vlan_egr |-> BitsOf(200), destports |-> {2}]) >>,
      << Entry("BLK_IDX_RETAGGING",
               [egr_port |-> {1}, ing_port |-> {0}, vlan_ing |-> BitsOf(100),
                vlan_egr |-> BitsOf(200), use_dest_ports |-> {0},
                destports |-> {2}]) >> }

\* what is put into the configuration besides the default tables: the number
\* of policers, the retagging rules (the frame memory of partition 0 is then
\* lowered to what retagging leaves), and whether the xMII table is there
\* (without it the configuration is not valid)
ConfigChoices ==
    {[npol |-> n, retag |-> r, xmii |-> TRUE] :
        n \in 1..MaxPolicers, r \in RetaggingChoices}
    \cup {[npol |-> 1, retag |-> << >>, xmii |-> FALSE]}

CfgIdle ==
    /\ cfg_pc = "idle"
    /\ static_config = << >>
    /\ config_buf = << >>
    /\ unpacked_config = << >>
    /\ cfg_rc = 0

PkIdle ==
    /\ pk_pc = "idle"
    /\ pbuf = << >>
    /\ pbuflen = 0
    /\ pstartbit = 0
    /\ pendbit = 0
    /\ quirks = {}
    /\ uval = {}
    /\ uval_in = {}
    /\ pk_rc = 0

UpIdle ==
    /\ up_pc = "idle"
    /\ up_rc = 0
    /\ retries = 0
    /\ status = << >>
    /\ priv_device_id = {}
    /\ nReset = 0
    /\ nTransfer = 0
    /\ nStatus = 0
    /\ xfer_len = 0
    /\ attempt_healthy = FALSE
    /\ only_not_valid = FALSE

DynIdle ==
    /\ dyn_pc = "idle"
    /\ dyn_gen = "ET"
    /\ dyn_blk = "BLK_IDX_INVAL"
    /\ dyn_call = << >>
    /\ dyn_rc = 0
    /\ dyn_buf = << >>
    /\ dyn_cmd = << >>
    /\ dyn_retries = 0
    /\ dyn_entry = << >>
    /\ dyn_hw = << >>
    /\ dyn_polls = << >>
    /\ dyn_nwrites = 0
    /\ dyn_npolls = 0
    /\ dyn_spi_failed = FALSE
    /\ dyn_deleted = {}

TasIdle ==
    /\ tas_pc = "idle"
    /\ priv_tas_config = << >>
    /\ tas_tables = << >>
    /\ tas_rc = 0
    /\ tas_work = FALSE
    /\ tas_call = << >>
    /\ tas_unit = 0

TblIdle ==
    /\ tbl_pc = "idle"
    /\ tbl_config = << >>
    /\ tbl_prev = << >>
    /\ tbl_call = << >>
    /\ tbl_rc = 0
    /\ tbl_nops = 0

TmpIdle == cfg_tamper = << >>

SendIdle ==
    /\ send_pc = "idle"
    /\ send_call = << >>
    /\ chunk = << >>
    /\ send_rc = 0
    /\ send_log = << >>

WkIdle ==
    /\ wk_pc = "idle"
    /\ wk_worker = "idle"
    /\ wk_freed = << >>
    /\ wk_buf = << >>
    /\ wk_torn = FALSE
    /\ wk_version = 0
    /\ wk_seen = << >>

PairIdle ==
    /\ pair_pc = "idle"
    /\ pair_in = << >>
    /\ pair_one = << >>
    /\ pair_both = << >>
    /\ pair_out = << >>

LaterIdle == TblIdle /\ TmpIdle /\ SendIdle /\ WkIdle /\ PairIdle

ConfigInit ==
    /\ PkIdle
    /\ UpIdle
    /\ DynIdle
    /\ TasIdle
    /\ LaterIdle
    /\ shift_ub \in ShiftOutcomes
    /\ cfg_pc = "built"
    /\ \E v \in Variants, ch \in ConfigChoices :
          static_config =
              [sja1105_static_config_load(v, ch.npol) EXCEPT
                  !.tables["BLK_IDX_RETAGGING"] = Table(ch.retag),
                  !.tables["BLK_IDX_L2_FORWARDING_PARAMS"]
                          .entries[1]["part_spc[0]"] =
                      IF ch.retag = << >> THEN @
                      ELSE BitsOf(MAX_FRAME_MEMORY_RETAGGING),
                  !.tables["BLK_IDX_XMII_PARAMS"] =
                      IF ch.xmii THEN @ ELSE EmptyTable]
    /\ config_buf = << >>
    /\ unpacked_config = << >>
    /\ cfg_rc = 0

\* config_buf = kcalloc(sja1105_static_config_get_length(config));
\* sja1105_static_config_pack(config_buf, config)
ConfigPack ==
    /\ cfg_pc = "built"
    /\ config_buf' = sja1105_static_config_pack(static_config, shift_ub)
    /\ cfg_pc' = "packed"
    /\ UNCHANGED <<dynVars, tasVars, laterVars, pkVars, shift_ub, static_config, unpacked_config, cfg_rc,
                   upVars>>

\* sja1105_static_config_init(&new, device_id, part_nr);
\* rc = sja1105_static_config_unpack(config_buf, buf_len, &new)
ConfigUnpacked(r) ==
    /\ cfg_rc' = r.rc
    /\ unpacked_config' = r.config

ConfigUnpack ==
    /\ cfg_pc = "packed"
    /\ \E alloc_ok \in BOOLEAN :
          ConfigUnpacked(
              sja1105_static_config_unpack(config_buf,
                  sja1105_static_config_get_length(static_config),
                  sja1105_static_config_init(static_config.variant),
                  alloc_ok, shift_ub))
    /\ cfg_pc' = "unpacked"
    /\ UNCHANGED <<dynVars, tasVars, laterVars, pkVars, shift_ub, static_config, config_buf, upVars>>

ConfigNext == ConfigPack \/ ConfigUnpack

ConfigSpec == ConfigInit /\ [][ConfigNext]_vars

\* the entries of a table that are in use
UsedEntries(table) == SubSeq(table.entries, 1, table.entry_count)

SameTables(c1, c2) ==
    \A k \in BlkIdx :
        /\ c1.tables[k].entry_count = c2.tables[k].entry_count
        /\ UsedEntries(c1.tables[k]) = UsedEntries(c2.tables[k])

\* C2: for every static configuration that passes
\* sja1105_static_config_check_valid, unpacking the buffer written by
\* sja1105_static_config_pack into a freshly initialised configuration of the
\* same device returns SJA1105_CONFIG_OK and yields, for every table kind,
\* the same entry_count and the same entries field for field (memory for
\* the tables being available).
C2_StaticConfigRoundTrip ==
    (/\ cfg_pc = "unpacked"
     /\ cfg_rc # -ENOMEM
     /\ sja1105_static_config_check_valid(static_config) = SJA1105_CONFIG_OK)
    => (cfg_rc = SJA1105_CONFIG_OK /\ SameTables(static_config, unpacked_config))

\* ------------------------------------------------------------------------
\* sja1105_spi.c: uploading the static configuration

SIZE_SPI_MSG_MAXLEN == 256
RETRIES == 10

\* what spi_sync() hands back when a transfer fails
SpiErrors == {-EIO, -ETIMEDOUT}

\* one turn of the while (chunk.len) loop of
\* sja1105_spi_send_long_packed_buf(); st is [rc, off, len, stop], off the
\* distance of chunk.buf_ptr from packed_buf, and the n-th
\* sja1105_spi_send_packed_buf() returns err when n = fail_at
send_long_chunk(st, n, buf_len, fail_at, err) ==
    IF st.stop \/ st.len = 0 THEN [st EXCEPT !.stop = TRUE]
    ELSE IF n = fail_at THEN [st EXCEPT !.rc = err, !.stop = TRUE]
    ELSE LET off == st.off + st.len
             distance_to_end == buf_len - off
         IN [st EXCEPT !.off = off,
                       !.len = IF distance_to_end < SIZE_SPI_MSG_MAXLEN
                               THEN distance_to_end
                               ELSE SIZE_SPI_MSG_MAXLEN]

send_long_result(st) == [rc |-> st.rc, off |-> st.off]

\* sja1105_spi_send_long_packed_buf(priv, SPI_WRITE, base, buf, buf_len):
\* [rc, off], off the number of bytes that got through
sja1105_spi_send_long_packed_buf(buf_len, fail_at, err) ==
    send_long_result(
        ForLoop(LAMBDA s, n : send_long_chunk(s, n, buf_len, fail_at, err),
                [rc |-> 0, off |-> 0,
                 len |-> IF buf_len < SIZE_SPI_MSG_MAXLEN THEN buf_len
                         ELSE SIZE_SPI_MSG_MAXLEN,
                 stop |-> FALSE],
                1, (buf_len \div SIZE_SPI_MSG_MAXLEN) + 1))

\* the number of sja1105_spi_send_packed_buf() calls a full transfer takes
NumChunks(buf_len) ==
    (buf_len + SIZE_SPI_MSG_MAXLEN - 1) \div SIZE_SPI_MSG_MAXLEN

\* The fields of struct sja1105_general_status that the upload looks at.
StatusFields == {"configs", "crcchkl", "ids", "crcchkg"}

\* sja1105_general_status_unpack(), the first word of the register area
\* (p-- followed by p + 0x1): configs, crcchkl, ids and crcchkg are bits
\* 31, 30, 29 and 28 of it.
sja1105_general_status_unpack(buf, ub) ==
    [configs |-> sja1105_unpack(buf, 31, 31, 4, ub),
     crcchkl |-> sja1105_unpack(buf, 30, 30, 4, ub),
     ids |-> sja1105_unpack(buf, 29, 29, 4, ub),
     crcchkg |-> sja1105_unpack(buf, 28, 28, 4, ub)]

\* The first word of the general status area as the switch may present it:
\* any combination of the four flags.
StatusWords == SUBSET (28..31)

\* the four bytes that the SPI read of the status word w puts into packed_buf
StatusReply(w, ub) == sja1105_pack(ZeroBuf(4), w, 31, 0, 4, ub)

GeneralStatus ==
    Eval([ub \in ShiftOutcomes |->
             Eval([w \in StatusWords |->
                      sja1105_general_status_unpack(StatusReply(w, ub), ub)])])

\* struct sja1105_general_status status; is not initialised.  A field that
\* is neither 0 nor 1 fails both the == 1 and the == 0 tests, which is what
\* 1 does for configs and 0 for the other three, so 0 and 1 cover it.
UninitStatus == [StatusFields -> {{}, {0}}]

\* the buffer buf with the bytes packed as its last SIZE_TABLE_HEADER bytes
final_header_set(buf, packed) ==
    Eval([i \in 1..Len(buf) |->
             IF i > Len(buf) - SIZE_TABLE_HEADER
             THEN packed[i - 1 - (Len(buf) - SIZE_TABLE_HEADER)]
             ELSE buf[i]])

\* final_header.crc = sja1105_crc32(config_buf, crc_len);
\* sja1105_table_header_packing(final_header_ptr, &final_header, PACK);
final_header_crc(buf, final_header, ub) ==
    final_header_set(buf,
        fields_packing([buf |-> SeqToBuf(buf, Len(buf) - SIZE_TABLE_HEADER,
                                         SIZE_TABLE_HEADER),
                        entry |-> [final_header EXCEPT
                                      !.crc = sja1105_crc32(buf, Len(buf) - 4,
                                                            ub)]],
                       sja1105_table_header_packing, SIZE_TABLE_HEADER, PACK,
                       ub).buf)

\* sja1105_table_header_packing(final_header_ptr, &final_header, UNPACK)
\* and the above, on the buffer that sja1105_static_config_pack() wrote
final_header_rewrite(buf, ub) ==
    final_header_crc(buf,
                     header_unpack(SeqToBuf(buf, Len(buf) - SIZE_TABLE_HEADER,
                                            SIZE_TABLE_HEADER), ub),
                     ub)

\* static_config_buf_prepare_for_upload() without the comparison of the
\* device ids
prepare_for_upload_any_device(config, device_id, ub) ==
    IF sja1105_static_config_check_valid(config) # SJA1105_CONFIG_OK
    THEN [rc |-> -EINVAL, buf |-> << >>]
    ELSE [rc |-> 0,
          buf |-> final_header_rewrite(sja1105_static_config_pack(config, ub),
                                       ub)]

\* static_config_buf_prepare_for_upload(): [rc, buf]
static_config_buf_prepare_for_upload(config, device_id, ub) ==
    IF sja1105_static_config_check_valid(config) # SJA1105_CONFIG_OK
    THEN [rc |-> -EINVAL, buf |-> << >>]
    ELSE IF config.device_id # device_id
    THEN [rc |-> -EINVAL, buf |-> << >>]
    ELSE [rc |-> 0,
          buf |-> final_header_rewrite(sja1105_static_config_pack(config, ub),
                                       ub)]

\* the while condition without the test of configs
upload_status_bad_flags_only(st) ==
    \/ st.crcchkl = {0}
    \/ st.crcchkg = {0}
    \/ st.ids = {0}

\* (status.crcchkl == 1 || status.crcchkg == 1 || status.configs == 0 ||
\*  status.ids == 1), the second operand of the while condition
upload_status_bad(st) ==
    \/ st.crcchkl = {0}
    \/ st.crcchkg = {0}
    \/ st.configs = {}
    \/ st.ids = {0}

\* The end of one turn of the do ... while loop, reached by falling through
\* or by a continue, with rc and status as the turn left them:
\* while (--retries && (...)); if (!retries) rc = -EIO; ... return rc
UploadLoopEnd(rc, st) ==
    LET r == retries - 1
    IN /\ retries' = r
       /\ status' = st
       /\ IF r # 0 /\ upload_status_bad(st)
          THEN /\ up_pc' = "reset"
               /\ up_rc' = rc
          ELSE /\ up_pc' = "done"
               /\ up_rc' = IF r = 0 THEN -EIO ELSE rc

\* config_buf = kcalloc(buf_len); if (!config_buf) return -ENOMEM;
\* rc = static_config_buf_prepare_for_upload(...) having returned p:
\* if (rc < 0) return -EINVAL;
UploadPrepared(alloc_ok, p) ==
    IF ~alloc_ok
    THEN /\ up_rc' = -ENOMEM
         /\ up_pc' = "done"
         /\ config_buf' = config_buf
    ELSE IF p.rc < 0
    THEN /\ up_rc' = -EINVAL
         /\ up_pc' = "done"
         /\ config_buf' = config_buf
    ELSE /\ up_rc' = p.rc
         /\ up_pc' = "reset"
         /\ config_buf' = p.buf

\* sja1105_static_config_upload() up to the loop
UploadPrepare ==
    /\ up_pc = "start"
    /\ \E alloc_ok \in BOOLEAN :
          UploadPrepared(alloc_ok,
              static_config_buf_prepare_for_upload(static_config,
                                                   priv_device_id, shift_ub))
    /\ UNCHANGED <<dynVars, tasVars, laterVars, pkVars, shift_ub, cfg_pc, static_config, unpacked_config,
                   cfg_rc, retries, status, priv_device_id, nReset, nTransfer,
                   nStatus, xfer_len, attempt_healthy, only_not_valid>>

\* rc = sja1105_cold_reset(priv); if (rc < 0) continue;
UploadReset ==
    /\ up_pc = "reset"
    /\ nReset' = nReset + 1
    /\ attempt_healthy' = FALSE
    /\ \/ /\ up_pc' = "transfer"
          /\ up_rc' = 0
          /\ UNCHANGED <<retries, status, only_not_valid>>
       \/ \E err \in SpiErrors :
             /\ UploadLoopEnd(err, status)
             /\ only_not_valid' = FALSE
    /\ UNCHANGED <<dynVars, tasVars, laterVars, pkVars, shift_ub, cfgVars, priv_device_id, nTransfer,
                   nStatus, xfer_len>>

\* the transfer has returned r = [rc, off]: if (rc < 0) continue;
UploadTransferred(r) ==
    /\ xfer_len' = r.off
    /\ IF r.rc < 0
       THEN /\ UploadLoopEnd(r.rc, status)
            /\ only_not_valid' = FALSE
       ELSE /\ up_pc' = "status"
            /\ up_rc' = r.rc
            /\ UNCHANGED <<retries, status, only_not_valid>>

\* rc = sja1105_spi_send_long_packed_buf(priv, SPI_WRITE, regs->config,
\*                                       config_buf, buf_len);
UploadTransfer ==
    /\ up_pc = "transfer"
    /\ nTransfer' = nTransfer + 1
    /\ \E fail_at \in {0, 1, NumChunks(Len(config_buf))}, err \in SpiErrors :
          UploadTransferred(
              sja1105_spi_send_long_packed_buf(Len(config_buf), fail_at, err))
    /\ UNCHANGED <<dynVars, tasVars, laterVars, pkVars, shift_ub, cfgVars, priv_device_id, nReset, nStatus,
                   attempt_healthy>>

\* the status read has filled status with st; the four tests of the flags
\* that follow each end in a continue
UploadStatusRead(st) ==
    /\ UploadLoopEnd(0, st)
    /\ attempt_healthy' = ~upload_status_bad(st)
    /\ only_not_valid' = (only_not_valid /\ st.configs = {})

\* rc = sja1105_general_status_get(priv, &status); if (rc < 0) continue;
UploadStatus ==
    /\ up_pc = "status"
    /\ nStatus' = nStatus + 1
    /\ \/ \E err \in SpiErrors :
             /\ UploadLoopEnd(err, status)
             /\ attempt_healthy' = FALSE
             /\ only_not_valid' = FALSE
       \/ \E w \in StatusWords : UploadStatusRead(GeneralStatus[shift_ub][w])
    /\ UNCHANGED <<dynVars, tasVars, laterVars, pkVars, shift_ub, cfgVars, priv_device_id, nReset,
                   nTransfer, xfer_len>>

UploadNext == UploadPrepare \/ UploadReset \/ UploadTransfer \/ UploadStatus

\* the switch models the upload is tried on
UploadVariants == {"E", "Q"}

UploadInit ==
    /\ PkIdle
    /\ DynIdle
    /\ TasIdle
    /\ LaterIdle
    /\ shift_ub \in ShiftOutcomes
    /\ cfg_pc = "idle"
    /\ \E v \in UploadVariants, xmii \in BOOLEAN :
          static_config =
              [sja1105_static_config_load(v, 1) EXCEPT
                  !.tables["BLK_IDX_XMII_PARAMS"] =
                      IF xmii THEN @ ELSE EmptyTable]
    /\ config_buf = << >>
    /\ unpacked_config = << >>
    /\ cfg_rc = 0
    /\ up_pc = "start"
    /\ up_rc = 0
    /\ retries = RETRIES
    /\ status \in UninitStatus
    /\ priv_device_id \in {VariantDeviceId(v) : v \in UploadVariants}
    /\ nReset = 0
    /\ nTransfer = 0
    /\ nStatus = 0
    /\ xfer_len = 0
    /\ attempt_healthy = FALSE
    /\ only_not_valid = TRUE

UploadSpec == UploadInit /\ [][UploadNext]_vars

\* the call is made with a configuration that
\* sja1105_static_config_check_valid rejects, or one built for another
\* device than the one probed
UploadRejected ==
    \/ sja1105_static_config_check_valid(static_config) # SJA1105_CONFIG_OK
    \/ static_config.device_id # priv_device_id

\* C3: when the configuration fails sja1105_static_config_check_valid or
\* its device id differs from the device id of the switch,
\* sja1105_static_config_upload returns an error, and no reset, no
\* configuration transfer and no status read is ever issued.
C3_InvalidConfigNoTransport ==
    (up_pc # "idle" /\ UploadRejected)
    => /\ nReset = 0 /\ nTransfer = 0 /\ nStatus = 0
       /\ up_pc \in {"start", "done"}
       /\ (up_pc = "done" => up_rc < 0)

C3_Witness ==
    /\ up_pc = "done"
    /\ up_rc = -EINVAL
    /\ UploadRejected

\* C4: in whichever of the attempts 1..RETRIES, the last one included, the
\* reset, the transfer and the status read succeed and the status has
\* configs set and ids, crcchkl and crcchkg clear, the upload stops
\* retrying and returns success.
C4_HealthyAttemptSucceeds ==
    attempt_healthy => (up_pc = "done" /\ up_rc = 0)

\* C5: when every reset, transfer and status read goes through and the
\* status never has configs set, exactly RETRIES attempts are made, each
\* of them a reset, a transfer of the whole buffer and a status read, the
\* upload returns -EIO, and the static configuration is left as it was.
C5_NotValidExhaustsRetries ==
    /\ []((config_buf # << >> /\ only_not_valid)
          => /\ (up_pc \in {"status", "done"}
                  => xfer_len = Len(config_buf))
             /\ (up_pc = "done"
                  => /\ nReset = RETRIES
                     /\ nTransfer = RETRIES
                     /\ nStatus = RETRIES
                     /\ up_rc = -EIO))
    /\ [][up_pc # "idle" => static_config' = static_config]_vars

C5_Witness ==
    /\ up_pc = "done"
    /\ only_not_valid
    /\ nStatus = RETRIES
    /\ up_rc = -EIO

\* C28: an attempt whose reset, transfer or status read fails while retries
\* remain is followed by another attempt; the upload never returns after
\* fewer than RETRIES attempts unless the status read of its last attempt
\* succeeded and showed a healthy status, and it returns 0 in no other case.
C28_RetriesUntilHealthy ==
    /\ []((up_pc = "done" /\ nReset >= 1 /\ ~attempt_healthy)
          => (nReset = RETRIES /\ up_rc # 0))
    /\ [][(retries' # retries /\ retries' # 0 /\ ~attempt_healthy')
             => up_pc' = "reset"]_vars

\* ------------------------------------------------------------------------
\* sja1105-dynamic-config.c: reading and writing table entries of the
\* running switch through its command registers

SIZE_DYN_CMD == 4
SIZE_MAC_CONFIG_DYN_ENTRY_ET == SIZE_DYN_CMD
SIZE_VL_LOOKUP_DYN_CMD_ET == SIZE_DYN_CMD
SIZE_VL_LOOKUP_DYN_CMD_PQRS == SIZE_DYN_CMD + SIZE.VL_LOOKUP_ENTRY
SIZE_L2_LOOKUP_DYN_CMD_ET == SIZE_DYN_CMD + SIZE.L2_LOOKUP_ENTRY_ET
SIZE_L2_LOOKUP_DYN_CMD_PQRS == SIZE_DYN_CMD + SIZE.L2_LOOKUP_ENTRY_PQRS
SIZE_VLAN_LOOKUP_DYN_CMD == SIZE_DYN_CMD + 4 + SIZE.VLAN_LOOKUP_ENTRY
SIZE_L2_FORWARDING_DYN_CMD == SIZE_DYN_CMD + SIZE.L2_FORWARDING_ENTRY
SIZE_MAC_CONFIG_DYN_CMD_ET == SIZE_DYN_CMD + SIZE_MAC_CONFIG_DYN_ENTRY_ET
SIZE_MAC_CONFIG_DYN_CMD_PQRS == SIZE_DYN_CMD + SIZE.MAC_CONFIG_ENTRY_PQRS
SIZE_L2_LOOKUP_PARAMS_DYN_CMD_ET == SIZE_DYN_CMD
SIZE_GENERAL_PARAMS_DYN_CMD_ET == SIZE_DYN_CMD
SIZE_RETAGGING_DYN_CMD_ET == SIZE_DYN_CMD + SIZE.RETAGGING_ENTRY
MAX_DYN_CMD_SIZE == SIZE_MAC_CONFIG_DYN_CMD_PQRS

\* enum sja1105_spi_access_mode
SPI_READ == 0
SPI_WRITE == 1

\* the members of struct sja1105_dyn_cmd that the command codecs touch
DynCmdFields == {"valid", "rdwrset", "errors", "valident", "index"}

\* struct sja1105_dyn_cmd cmd = { 0 };  memset(&cmd, 0, sizeof(cmd))
ZeroCmd == Eval([f \in DynCmdFields |-> {}])

\* A codec of this file is the sequence of its sja1105_packing() calls, each
\* <<member, byte offset of the buffer handed to the call, start, end, size>>.

sja1105_vl_lookup_cmd_packing ==
    << <<"valid", 0, 31, 31, SIZE_DYN_CMD>>,
       <<"errors", 0, 30, 30, SIZE_DYN_CMD>>,
       <<"rdwrset", 0, 29, 29, SIZE_DYN_CMD>>,
       <<"index", 0, 9, 0, SIZE_DYN_CMD>> >>

\* egrmirr and ingrmirr are the union members that share their storage with
\* destports and iscritical
sja1105et_vl_lookup_entry_packing ==
    << <<"destports", 0, 21, 17, SIZE_VL_LOOKUP_DYN_CMD_ET>>,
       <<"iscritical", 0, 16, 16, SIZE_VL_LOOKUP_DYN_CMD_ET>> >>

\* p = buf + SIZE_L2_LOOKUP_ENTRY_PQRS
sja1105pqrs_l2_lookup_cmd_packing ==
    << <<"valid", SIZE.L2_LOOKUP_ENTRY_PQRS, 31, 31, SIZE_DYN_CMD>>,
       <<"rdwrset", SIZE.L2_LOOKUP_ENTRY_PQRS, 30, 30, SIZE_DYN_CMD>>,
       <<"errors", SIZE.L2_LOOKUP_ENTRY_PQRS, 29, 29, SIZE_DYN_CMD>>,
       <<"valident", SIZE.L2_LOOKUP_ENTRY_PQRS, 27, 27, SIZE_DYN_CMD>>,
       <<"index", 0, 29, 20, SIZE.L2_LOOKUP_ENTRY_PQRS>> >>

\* p = buf + SIZE_L2_LOOKUP_ENTRY_ET
sja1105et_l2_lookup_cmd_packing ==
    << <<"valid", SIZE.L2_LOOKUP_ENTRY_ET, 31, 31, SIZE_DYN_CMD>>,
       <<"rdwrset", SIZE.L2_LOOKUP_ENTRY_ET, 30, 30, SIZE_DYN_CMD>>,
       <<"errors", SIZE.L2_LOOKUP_ENTRY_ET, 29, 29, SIZE_DYN_CMD>>,
       <<"valident", SIZE.L2_LOOKUP_ENTRY_ET, 27, 27, SIZE_DYN_CMD>>,
       <<"index", 0, 29, 20, SIZE.L2_LOOKUP_ENTRY_ET>> >>

\* p = buf + SIZE_VLAN_LOOKUP_ENTRY + 4
sja1105_vlan_lookup_cmd_packing ==
    << <<"valid", SIZE.VLAN_LOOKUP_ENTRY + 4, 31, 31, SIZE_DYN_CMD>>,
       <<"rdwrset", SIZE.VLAN_LOOKUP_ENTRY + 4, 30, 30, SIZE_DYN_CMD>>,
       <<"valident", SIZE.VLAN_LOOKUP_ENTRY + 4, 27, 27, SIZE_DYN_CMD>>,
       <<"index", 0, 38, 27, SIZE.VLAN_LOOKUP_ENTRY>> >>

\* p = buf + SIZE_L2_FORWARDING_ENTRY
sja1105_l2_forwarding_cmd_packing ==
    << <<"valid", SIZE.L2_FORWARDING_ENTRY, 31, 31, SIZE_DYN_CMD>>,
       <<"errors", SIZE.L2_FORWARDING_ENTRY, 30, 30, SIZE_DYN_CMD>>,
       <<"rdwrset", SIZE.L2_FORWARDING_ENTRY, 29, 29, SIZE_DYN_CMD>>,
       <<"index", SIZE.L2_FORWARDING_ENTRY, 4, 0, SIZE_DYN_CMD>> >>

\* reg1 = buf + 4
sja1105et_mac_config_cmd_packing ==
    << <<"valid", 4, 31, 31, SIZE_DYN_CMD>>,
       <<"index", 4, 26, 24, SIZE_DYN_CMD>> >>

\* the E/T codec of this file (static, not the one of
\* sja1105_static_config.c): reg1 = buf + 4, reg2 = buf
sja1105et_mac_config_entry_packing_dyn ==
    << <<"speed", 4, 30, 29, SIZE_MAC_CONFIG_DYN_ENTRY_ET>>,
       <<"drpdtag", 4, 23, 23, SIZE_MAC_CONFIG_DYN_ENTRY_ET>>,
       <<"drpuntag", 4, 22, 22, SIZE_MAC_CONFIG_DYN_ENTRY_ET>>,
       <<"retag", 4, 21, 21, SIZE_MAC_CONFIG_DYN_ENTRY_ET>>,
       <<"dyn_learn", 4, 20, 20, SIZE_MAC_CONFIG_DYN_ENTRY_ET>>,
       <<"egress", 4, 19, 19, SIZE_MAC_CONFIG_DYN_ENTRY_ET>>,
       <<"ingress", 4, 18, 18, SIZE_MAC_CONFIG_DYN_ENTRY_ET>>,
       <<"ing_mirr", 4, 17, 17, SIZE_MAC_CONFIG_DYN_ENTRY_ET>>,
       <<"egr_mirr", 4, 16, 16, SIZE_MAC_CONFIG_DYN_ENTRY_ET>>,
       <<"vlanprio", 4, 14, 12, SIZE_MAC_CONFIG_DYN_ENTRY_ET>>,
       <<"vlanid", 4, 11, 0, SIZE_MAC_CONFIG_DYN_ENTRY_ET>>,
       <<"tp_delin", 0, 31, 16, SIZE_MAC_CONFIG_DYN_ENTRY_ET>>,
       <<"tp_delout", 0, 15, 0, SIZE_MAC_CONFIG_DYN_ENTRY_ET>> >>

\* p = buf + SIZE_MAC_CONFIG_ENTRY_PQRS
sja1105pqrs_mac_config_cmd_packing ==
    << <<"valid", SIZE.MAC_CONFIG_ENTRY_PQRS, 31, 31, SIZE_DYN_CMD>>,
       <<"errors", SIZE.MAC_CONFIG_ENTRY_PQRS, 30, 30, SIZE_DYN_CMD>>,
       <<"rdwrset", SIZE.MAC_CONFIG_ENTRY_PQRS, 29, 29, SIZE_DYN_CMD>>,
       <<"index", SIZE.MAC_CONFIG_ENTRY_PQRS, 2, 0, SIZE_DYN_CMD>> >>

sja1105et_l2_lookup_params_cmd_packing ==
    << <<"valid", 0, 31, 31, SIZE_L2_LOOKUP_PARAMS_DYN_CMD_ET>> >>

sja1105et_l2_lookup_params_entry_packing_dyn ==
    << <<"poly", 0, 7, 0, SIZE_L2_LOOKUP_PARAMS_DYN_CMD_ET>> >>

sja1105et_general_params_cmd_packing ==
    << <<"valid", 0, 31, 31, SIZE_GENERAL_PARAMS_DYN_CMD_ET>>,
       <<"errors", 0, 30, 30, SIZE_GENERAL_PARAMS_DYN_CMD_ET>> >>

sja1105et_general_params_entry_packing_dyn ==
    << <<"mirr_port", 0, 2, 0, SIZE_GENERAL_PARAMS_DYN_CMD_ET>> >>

sja1105_retagging_cmd_packing ==
    << <<"valid", 0, 31, 31, SIZE_DYN_CMD>>,
       <<"errors", 0, 30, 30, SIZE_DYN_CMD>>,
       <<"valident", 0, 29, 29, SIZE_DYN_CMD>>,
       <<"index", 0, 5, 0, SIZE_DYN_CMD>> >>

\* BIT(0), BIT(1), BIT(2)
OP_READ == {0}
OP_WRITE == {1}
OP_DEL == {2}

\* One struct sja1105_dynamic_table_ops.  entry_packing is either a codec of
\* sja1105_static_config.c, which works on the first bytes of the buffer
\* (entry_ops), or a codec of this file (entry_calls).
DynOpsShared(codec, size, cmd, access, max, packed_size, addr) ==
    [entry_shared |-> TRUE, entry_ops |-> Ops(codec, size, max),
     entry_calls |-> << >>, cmd_packing |-> cmd, access |-> access,
     max_entry_count |-> max, packed_size |-> packed_size, addr |-> addr,
     null |-> FALSE]

DynOpsLocal(calls, cmd, access, max, packed_size, addr) ==
    [entry_shared |-> FALSE, entry_ops |-> NullOps, entry_calls |-> calls,
     cmd_packing |-> cmd, access |-> access, max_entry_count |-> max,
     packed_size |-> packed_size, addr |-> addr, null |-> FALSE]

\* the "{ 0 }" initialiser: NULL callbacks, no access, sizes 0
DynNullOps ==
    [entry_shared |-> FALSE, entry_ops |-> NullOps, entry_calls |-> << >>,
     cmd_packing |-> << >>, access |-> {}, max_entry_count |-> 0,
     packed_size |-> 0, addr |-> 0, null |-> TRUE]

\* sja1105et_table_ops[k] (0x35 = 53, 0x20 = 32, ...)
sja1105et_table_ops(k) ==
    CASE k = "BLK_IDX_VL_LOOKUP" ->
           DynOpsLocal(sja1105et_vl_lookup_entry_packing,
                       sja1105_vl_lookup_cmd_packing, OP_WRITE,
                       MAX_COUNT.VL_LOOKUP, SIZE_VL_LOOKUP_DYN_CMD_ET, 53)
      [] k = "BLK_IDX_L2_LOOKUP" ->
           DynOpsShared(sja1105et_l2_lookup_entry_packing,
                        SIZE.L2_LOOKUP_ENTRY_ET,
                        sja1105et_l2_lookup_cmd_packing,
                        OP_READ \cup OP_WRITE \cup OP_DEL,
                        MAX_COUNT.L2_LOOKUP, SIZE_L2_LOOKUP_DYN_CMD_ET, 32)
      [] k = "BLK_IDX_VLAN_LOOKUP" ->
           DynOpsShared(sja1105_vlan_lookup_entry_packing,
                        SIZE.VLAN_LOOKUP_ENTRY,
                        sja1105_vlan_lookup_cmd_packing,
                        OP_WRITE \cup OP_DEL, MAX_COUNT.VLAN_LOOKUP,
                        SIZE_VLAN_LOOKUP_DYN_CMD, 39)
      [] k = "BLK_IDX_L2_FORWARDING" ->
           DynOpsShared(sja1105_l2_forwarding_entry_packing,
                        SIZE.L2_FORWARDING_ENTRY,
                        sja1105_l2_forwarding_cmd_packing, OP_WRITE,
                        MAX_COUNT.L2_FORWARDING, SIZE_L2_FORWARDING_DYN_CMD,
                        36)
      [] k = "BLK_IDX_MAC_CONFIG" ->
           DynOpsLocal(sja1105et_mac_config_entry_packing_dyn,
                       sja1105et_mac_config_cmd_packing, OP_WRITE,
                       MAX_COUNT.MAC_CONFIG, SIZE_MAC_CONFIG_DYN_CMD_ET, 54)
      [] k = "BLK_IDX_L2_LOOKUP_PARAMS" ->
           DynOpsLocal(sja1105et_l2_lookup_params_entry_packing_dyn,
                       sja1105et_l2_lookup_params_cmd_packing, OP_WRITE,
                       MAX_COUNT.L2_LOOKUP_PARAMS,
                       SIZE_L2_LOOKUP_PARAMS_DYN_CMD_ET, 56)
      [] k = "BLK_IDX_GENERAL_PARAMS" ->
           DynOpsLocal(sja1105et_general_params_entry_packing_dyn,
                       sja1105et_general_params_cmd_packing, OP_WRITE,
                       MAX_COUNT.GENERAL_PARAMS,
                       SIZE_GENERAL_PARAMS_DYN_CMD_ET, 52)
      [] k = "BLK_IDX_RETAGGING" ->
           DynOpsShared(sja1105_retagging_entry_packing, SIZE.RETAGGING_ENTRY,
                        sja1105_retagging_cmd_packing, OP_WRITE \cup OP_DEL,
                        MAX_COUNT.RETAGGING, SIZE_RETAGGING_DYN_CMD_ET, 49)
      [] OTHER -> DynNullOps

\* sja1105pqrs_table_ops[k].  The packed_size of BLK_IDX_L2_LOOKUP is
\* SIZE_L2_LOOKUP_DYN_CMD_ET in the source.
sja1105pqrs_table_ops(k) ==
    CASE k = "BLK_IDX_VL_LOOKUP" ->
           DynOpsShared(sja1105_vl_lookup_entry_packing, SIZE.VL_LOOKUP_ENTRY,
                        sja1105_vl_lookup_cmd_packing, OP_READ \cup OP_WRITE,
                        MAX_COUNT.VL_LOOKUP, SIZE_VL_LOOKUP_DYN_CMD_PQRS, 71)
      [] k = "BLK_IDX_L2_LOOKUP" ->
           DynOpsShared(sja1105pqrs_l2_lookup_entry_packing,
                        SIZE.L2_LOOKUP_ENTRY_PQRS,
                        sja1105pqrs_l2_lookup_cmd_packing,
                        OP_READ \cup OP_WRITE \cup OP_DEL,
                        MAX_COUNT.L2_LOOKUP, SIZE_L2_LOOKUP_DYN_CMD_ET, 36)
      [] k = "BLK_IDX_VLAN_LOOKUP" ->
           DynOpsShared(sja1105_vlan_lookup_entry_packing,
                        SIZE.VLAN_LOOKUP_ENTRY,
                        sja1105_vlan_lookup_cmd_packing,
                        OP_READ \cup OP_WRITE \cup OP_DEL,
                        MAX_COUNT.VLAN_LOOKUP, SIZE_VLAN_LOOKUP_DYN_CMD, 45)
      [] k = "BLK_IDX_L2_FORWARDING" ->
           DynOpsShared(sja1105_l2_forwarding_entry_packing,
                        SIZE.L2_FORWARDING_ENTRY,
                        sja1105_l2_forwarding_cmd_packing, OP_WRITE,
                        MAX_COUNT.L2_FORWARDING, SIZE_L2_FORWARDING_DYN_CMD,
                        42)
      [] k = "BLK_IDX_MAC_CONFIG" ->
           DynOpsShared(sja1105pqrs_mac_config_entry_packing,
                        SIZE.MAC_CONFIG_ENTRY_PQRS,
                        sja1105pqrs_mac_config_cmd_packing,
                        OP_READ \cup OP_WRITE, MAX_COUNT.MAC_CONFIG,
                        SIZE_MAC_CONFIG_DYN_CMD_PQRS, 75)
      [] k = "BLK_IDX_L2_LOOKUP_PARAMS" ->
           DynOpsLocal(sja1105et_l2_lookup_params_entry_packing_dyn,
                       sja1105et_l2_lookup_params_cmd_packing,
                       OP_READ \cup OP_WRITE, MAX_COUNT.L2_LOOKUP_PARAMS,
                       SIZE_L2_LOOKUP_PARAMS_DYN_CMD_ET, 56)
      [] k = "BLK_IDX_GENERAL_PARAMS" ->
           DynOpsLocal(sja1105et_general_params_entry_packing_dyn,
                       sja1105et_general_params_cmd_packing, OP_WRITE,
                       MAX_COUNT.GENERAL_PARAMS,
                       SIZE_GENERAL_PARAMS_DYN_CMD_ET, 52)
      [] k = "BLK_IDX_RETAGGING" ->
           DynOpsShared(sja1105_retagging_entry_packing, SIZE.RETAGGING_ENTRY,
                        sja1105_retagging_cmd_packing, OP_WRITE \cup OP_DEL,
                        MAX_COUNT.RETAGGING, SIZE_RETAGGING_DYN_CMD_ET, 49)
      [] OTHER -> DynNullOps

\* sja1105_dynamic_config_init(): priv->dyn_ops by switch generation
DynGenerations == {"ET", "PQRS"}

sja1105_dynamic_config_init(gen, k) ==
    IF gen = "ET" THEN sja1105et_table_ops(k) ELSE sja1105pqrs_table_ops(k)

\* the bytes buf[off .. off + size - 1], and buf with them replaced
dyn_sub(buf, off, size) == Eval([a \in 0..(size - 1) |-> buf[off + a]])

dyn_put(buf, off, size, sub) ==
    Eval([a \in DOMAIN buf |->
             IF a >= off /\ a < off + size THEN sub[a - off] ELSE buf[a]])

\* what one sja1105_packing() call c of a codec of this file that returned r
\* leaves in the buffer and in the member of the structure
dyn_field_packed(st, c, r) ==
    [buf |-> dyn_put(st.buf, c[2], c[5], r.pbuf),
     rec |-> [st.rec EXCEPT ![c[1]] = r.uval]]

\* sja1105_packing(buf + off, &rec->member, start, end, size, op)
dyn_field_packing(st, c, op, ub) ==
    dyn_field_packed(st, c,
        sja1105_packing(dyn_sub(st.buf, c[2], c[5]), st.rec[c[1]], c[3], c[4],
                        c[5], op, ub))

dyn_calls_packing(st, calls, op, ub) ==
    ForLoop(LAMBDA s, n : dyn_field_packing(s, calls[n], op, ub),
            st, 1, Len(calls))

\* ops->cmd_packing(packed_buf, &cmd, op): [buf, rec] afterwards
dyn_cmd_packing(ops, buf, cmd, op, ub) ==
    dyn_calls_packing([buf |-> buf, rec |-> cmd], ops.cmd_packing, op, ub)

dyn_entry_shared(buf, size, r) ==
    [buf |-> dyn_put(buf, 0, size, r.buf), rec |-> r.entry]

\* ops->entry_packing(packed_buf, entry, op): [buf, rec] afterwards
dyn_entry_packing(ops, buf, entry, op, ub) ==
    IF ops.entry_shared
    THEN dyn_entry_shared(buf, ops.entry_ops.packed_entry_size,
             entry_packing(ops.entry_ops,
                           dyn_sub(buf, 0, ops.entry_ops.packed_entry_size),
                           entry, op, ub))
    ELSE dyn_calls_packing([buf |-> buf, rec |-> entry], ops.entry_calls,
                           op, ub)

\* u8 packed_buf[MAX_DYN_CMD_SIZE] is not initialised: what the stack holds
DynStacks ==
    {Eval([a \in 0..(MAX_DYN_CMD_SIZE - 1) |-> g]) : g \in {{}, U8Bits}}

\* memset(packed_buf, 0, ops->packed_size)
dyn_memset(buf, size) ==
    Eval([a \in DOMAIN buf |-> IF a < size THEN {} ELSE buf[a]])

BoolBit(b) == IF b THEN {0} ELSE {}

\* the argument checks of sja1105_dynamic_config_read(): 0 or the error
dynamic_config_read_check(ops, blk_idx, index) ==
    IF blk_idx \notin BlkIdx THEN -ERANGE
    ELSE IF index >= ops.max_entry_count THEN -ERANGE
    ELSE IF ops.access \cap OP_READ = {} THEN -EOPNOTSUPP
    ELSE IF ops.packed_size > MAX_DYN_CMD_SIZE THEN -ERANGE
    ELSE IF ops.null THEN -EOPNOTSUPP
    ELSE 0

\* cmd.valid = true; cmd.rdwrset = SPI_READ; cmd.index = index;
\* ops->cmd_packing(packed_buf, &cmd, PACK)
dynamic_config_read_cmd(ops, index, stack, ub) ==
    dyn_cmd_packing(ops, dyn_memset(stack, ops.packed_size),
                    [ZeroCmd EXCEPT !.valid = BoolBit(TRUE),
                                    !.rdwrset = BitsOf(SPI_READ),
                                    !.index = BitsOf(index)],
                    PACK, ub)

\* a loop that goes on while retries are left, busy or not
dyn_poll_again_whatever_valid(cmd, r) == r - 1 # 0

\* } while (cmd.valid && --retries);
dyn_poll_again(cmd, r) == cmd.valid # {} /\ r - 1 # 0

\* the argument checks of sja1105_dynamic_config_write(): 0 or the error
dynamic_config_write_check(ops, blk_idx, index, keep) ==
    IF blk_idx \notin BlkIdx THEN -ERANGE
    ELSE IF index >= ops.max_entry_count THEN -ERANGE
    ELSE IF ops.access \cap OP_WRITE = {} THEN -EOPNOTSUPP
    ELSE IF ~keep /\ ops.access \cap OP_DEL = {} THEN -EOPNOTSUPP
    ELSE IF ops.packed_size > MAX_DYN_CMD_SIZE THEN -ERANGE
    ELSE IF ops.null THEN -EOPNOTSUPP
    ELSE 0

dynamic_config_write_entry(ops, st, entry, keep, ub) ==
    IF keep THEN dyn_entry_packing(ops, st.buf, entry, PACK, ub).buf
    ELSE st.buf

\* cmd.valident = keep; cmd.valid = true; cmd.rdwrset = SPI_WRITE;
\* cmd.index = index; ops->cmd_packing(packed_buf, &cmd, PACK);
\* if (keep) ops->entry_packing(packed_buf, entry, PACK)
dynamic_config_write_buf(ops, index, entry, keep, stack, ub) ==
    dynamic_config_write_entry(ops,
        dyn_cmd_packing(ops, dyn_memset(stack, ops.packed_size),
                        [ZeroCmd EXCEPT !.valident = BoolBit(keep),
                                        !.valid = BoolBit(TRUE),
                                        !.rdwrset = BitsOf(SPI_WRITE),
                                        !.index = BitsOf(index)],
                        PACK, ub),
        entry, keep, ub)

\* memset(&cmd, 0, sizeof(cmd)); ops->cmd_packing(packed_buf, &cmd, UNPACK);
\* if (cmd.errors) return -EINVAL; return 0;
dynamic_config_write_status(ops, buf, ub) ==
    IF dyn_cmd_packing(ops, buf, ZeroCmd, UNPACK, ub).rec.errors # {}
    THEN -EINVAL
    ELSE 0

\* ---- the switch behind the command registers ----
\* The switch keeps one table per kind; dyn_hw is [present, valident, errors,
\* index]: the indices that hold an entry, and the status and the index of
\* the last command it took.  It sees the packed_size bytes of a transfer
\* and nothing of the rest of the driver's buffer.

DynMaxIndex == 1

\* the entry a caller writes at an index, and the one the switch holds there
DynEntry(k, index) ==
    Eval([f \in StructFields(k) |->
             IF f = "index" \/ (k = "BLK_IDX_VLAN_LOOKUP" /\ f = "vlanid")
             THEN BitsOf(index)
             ELSE {0}])

dyn_window(buf, size) ==
    Eval([a \in 0..(MAX_DYN_CMD_SIZE - 1) |-> IF a < size THEN buf[a] ELSE {}])

DynHasField(calls, f) == \E n \in 1..Len(calls) : calls[n][1] = f

\* the switch takes the command c it decoded from a transfer; a write it
\* rejects sets the errors flag where the command word has one
hw_apply(hw, ops, c, index, reject) ==
    IF c.valid = {} THEN hw
    ELSE IF c.rdwrset = BitsOf(SPI_WRITE)
    THEN IF reject /\ DynHasField(ops.cmd_packing, "errors")
         THEN [hw EXCEPT !.errors = TRUE, !.index = index]
         ELSE [present |->
                   IF c.valident = {}
                      /\ DynHasField(ops.cmd_packing, "valident")
                   THEN hw.present \ {index}
                   ELSE hw.present \cup {index},
               valident |-> c.valident # {}, errors |-> FALSE,
               index |-> index]
    ELSE [hw EXCEPT !.valident = index \in hw.present, !.errors = FALSE,
                    !.index = index]

hw_decoded(hw, ops, c, reject) ==
    hw_apply(hw, ops, c, SumPow2(c.index), reject)

hw_command(hw, ops, buf, reject, ub) ==
    hw_decoded(hw, ops,
               dyn_cmd_packing(ops, dyn_window(buf, ops.packed_size), ZeroCmd,
                               UNPACK, ub).rec,
               reject)

\* the registers as a read transfer returns them: the entry of the last
\* command if there is one, the status, and valid while the switch is busy
hw_reply(hw, ops, k, busy, ub) ==
    dyn_cmd_packing(ops,
        dyn_entry_packing(ops, ZeroBuf(MAX_DYN_CMD_SIZE),
                          IF hw.valident THEN DynEntry(k, hw.index)
                          ELSE ZeroEntry(k),
                          PACK, ub).buf,
        [valid |-> BoolBit(busy), rdwrset |-> {},
         errors |-> BoolBit(hw.errors), valident |-> BoolBit(hw.valident),
         index |-> BitsOf(hw.index)],
        PACK, ub).buf

\* sja1105_spi_send_packed_buf(priv, SPI_READ, ops->addr, packed_buf,
\* ops->packed_size): the first packed_size bytes are the registers
dyn_spi_read(buf, reply, size) ==
    Eval([a \in DOMAIN buf |-> IF a < size THEN reply[a] ELSE buf[a]])

\* ---- the dynamic reconfiguration specification ----

\* the kinds either generation has operations for, one it has none for, and
\* one of the block indices past BLK_IDX_MAX
DynKinds ==
    {"BLK_IDX_SCHEDULE", "BLK_IDX_VL_LOOKUP", "BLK_IDX_L2_LOOKUP",
     "BLK_IDX_VLAN_LOOKUP", "BLK_IDX_L2_FORWARDING", "BLK_IDX_MAC_CONFIG",
     "BLK_IDX_L2_LOOKUP_PARAMS", "BLK_IDX_GENERAL_PARAMS",
     "BLK_IDX_RETAGGING", "BLK_IDX_MGMT_ROUTE"}

\* what an SPI transfer returns
DynSpiResults == {0, -EIO}

\* the indices a caller passes: the first ones and the first out of range
DynIndices(ops) == (0..DynMaxIndex) \cup {ops.max_entry_count}

DynOps == sja1105_dynamic_config_init(dyn_gen, dyn_blk)

DynInit ==
    /\ PkIdle
    /\ CfgIdle
    /\ UpIdle
    /\ TasIdle
    /\ LaterIdle
    /\ shift_ub = "wrap"
    /\ dyn_pc = "ready"
    /\ dyn_gen \in DynGenerations
    /\ dyn_blk \in DynKinds
    /\ dyn_call = << >>
    /\ dyn_rc = 0
    /\ dyn_buf = << >>
    /\ dyn_cmd = ZeroCmd
    /\ dyn_retries = 0
    /\ dyn_entry = << >>
    /\ \E present \in SUBSET (0..DynMaxIndex) :
          dyn_hw = [present |-> present, valident |-> FALSE,
                    errors |-> FALSE, index |-> 0]
    /\ dyn_polls = << >>
    /\ dyn_nwrites = 0
    /\ dyn_npolls = 0
    /\ dyn_spi_failed = FALSE
    /\ dyn_deleted = {}

DynCallStart(call) ==
    /\ dyn_call' = call
    /\ dyn_polls' = << >>
    /\ dyn_npolls' = 0

\* an argument check failed: nothing is packed and nothing is sent
DynRejected(call, rc) ==
    /\ DynCallStart(call)
    /\ dyn_pc' = "done"
    /\ dyn_rc' = rc
    /\ dyn_nwrites' = 0
    /\ dyn_spi_failed' = FALSE
    /\ dyn_buf' = << >>
    /\ dyn_entry' = << >>
    /\ dyn_cmd' = ZeroCmd
    /\ dyn_retries' = 0
    /\ UNCHANGED dyn_hw

\* the command is packed (st) and handed to the SPI write transfer
DynReadSent(ops, call, st, spi_rc) ==
    /\ DynCallStart(call)
    /\ dyn_buf' = st.buf
    /\ dyn_cmd' = st.rec
    /\ dyn_retries' = 3
    /\ dyn_nwrites' = 1
    /\ dyn_entry' = IF call.has_entry THEN ZeroEntry(dyn_blk) ELSE << >>
    /\ dyn_spi_failed' = (spi_rc < 0)
    /\ IF spi_rc < 0
       THEN /\ dyn_pc' = "done"
            /\ dyn_rc' = spi_rc
            /\ UNCHANGED dyn_hw
       ELSE /\ dyn_pc' = "poll"
            /\ dyn_rc' = 0
            /\ dyn_hw' = hw_command(dyn_hw, ops, st.buf, FALSE, shift_ub)

DynReadCall(ops, call, rc) ==
    IF rc < 0 THEN DynRejected(call, rc)
    ELSE \E stack \in DynStacks, spi_rc \in DynSpiResults :
            DynReadSent(ops, call,
                dynamic_config_read_cmd(ops, call.index, stack, shift_ub),
                spi_rc)

\* sja1105_dynamic_config_read() up to its polling loop
DynRead ==
    /\ dyn_pc = "ready"
    /\ \E index \in DynIndices(DynOps), has_entry \in BOOLEAN :
          DynReadCall(DynOps,
                      [op |-> "read", index |-> index, keep |-> FALSE,
                       has_entry |-> has_entry],
                      dynamic_config_read_check(DynOps, dyn_blk, index))
    /\ UNCHANGED <<dyn_gen, dyn_blk, dyn_deleted>>
    /\ UNCHANGED <<pkVars, shift_ub, cfgVars, upVars, tasVars, laterVars>>

\* the read transfer of one pass of the loop failed
DynPollFailed(ops, spi_rc) ==
    /\ dyn_buf' = dyn_memset(dyn_buf, ops.packed_size)
    /\ dyn_pc' = "done"
    /\ dyn_rc' = spi_rc
    /\ dyn_spi_failed' = TRUE
    /\ UNCHANGED <<dyn_cmd, dyn_retries, dyn_entry, dyn_polls>>

\* the rest of one pass of the loop, and what follows the loop when it is
\* left: st is [buf, rec] after ops->cmd_packing(packed_buf, &cmd, UNPACK)
DynPolled(ops, st) ==
    /\ dyn_buf' = st.buf
    /\ dyn_cmd' = st.rec
    /\ dyn_polls' = Append(dyn_polls, [valid |-> st.rec.valid # {},
                                       valident |-> st.rec.valident # {}])
    /\ UNCHANGED dyn_spi_failed
    /\ IF st.rec.valident = {}
       THEN /\ dyn_pc' = "done"
            /\ dyn_rc' = -EINVAL
            /\ UNCHANGED <<dyn_retries, dyn_entry>>
       ELSE IF dyn_poll_again(st.rec, dyn_retries)
       THEN /\ dyn_pc' = "poll"
            /\ dyn_retries' = dyn_retries - 1
            /\ UNCHANGED <<dyn_rc, dyn_entry>>
       ELSE /\ dyn_pc' = "done"
            /\ dyn_retries' = IF st.rec.valid # {} THEN dyn_retries - 1
                              ELSE dyn_retries
            /\ dyn_rc' = IF st.rec.valid # {} THEN -ETIMEDOUT ELSE 0
            /\ dyn_entry' =
                   IF st.rec.valid = {} /\ dyn_call.has_entry
                   THEN dyn_entry_packing(ops, st.buf, dyn_entry, UNPACK,
                                          shift_ub).rec
                   ELSE dyn_entry

\* one pass of the do ... while loop of sja1105_dynamic_config_read()
DynPoll ==
    /\ dyn_pc = "poll"
    /\ dyn_npolls' = dyn_npolls + 1
    /\ \E spi_rc \in DynSpiResults, busy \in BOOLEAN :
          IF spi_rc < 0 THEN DynPollFailed(DynOps, spi_rc)
          ELSE DynPolled(DynOps,
                   dyn_cmd_packing(DynOps,
                       dyn_spi_read(dyn_buf,
                                    hw_reply(dyn_hw, DynOps, dyn_blk, busy,
                                             shift_ub),
                                    DynOps.packed_size),
                       ZeroCmd, UNPACK, shift_ub))
    /\ UNCHANGED <<dyn_gen, dyn_blk, dyn_call, dyn_hw, dyn_nwrites,
                   dyn_deleted>>
    /\ UNCHANGED <<pkVars, shift_ub, cfgVars, upVars, tasVars, laterVars>>

\* the buffer buf is packed and handed to the SPI write transfer
DynWriteSent(ops, call, buf, spi_rc, reject) ==
    /\ DynCallStart(call)
    /\ dyn_pc' = "done"
    /\ dyn_buf' = buf
    /\ dyn_nwrites' = 1
    /\ dyn_entry' = << >>
    /\ dyn_spi_failed' = (spi_rc < 0)
    /\ dyn_rc' = IF spi_rc < 0 THEN spi_rc
                 ELSE dynamic_config_write_status(ops, buf, shift_ub)
    /\ dyn_hw' = IF spi_rc < 0 THEN dyn_hw
                 ELSE hw_command(dyn_hw, ops, buf, reject, shift_ub)
    /\ dyn_cmd' = ZeroCmd
    /\ dyn_retries' = 0

DynWriteCall(ops, call, rc) ==
    IF rc < 0 THEN DynRejected(call, rc)
    ELSE \E stack \in DynStacks, spi_rc \in DynSpiResults :
         \E reject \in (IF spi_rc < 0 THEN {FALSE} ELSE BOOLEAN) :
            DynWriteSent(ops, call,
                dynamic_config_write_buf(ops, call.index,
                                         DynEntry(dyn_blk, call.index),
                                         call.keep, stack, shift_ub),
                spi_rc, reject)

\* sja1105_dynamic_config_write(); dyn_deleted keeps the index this call
\* deleted with success, for the call that follows it
DynWrite ==
    /\ dyn_pc = "ready"
    /\ \E index \in DynIndices(DynOps), keep \in BOOLEAN :
          /\ DynWriteCall(DynOps,
                          [op |-> "write", index |-> index, keep |-> keep,
                           has_entry |-> keep],
                          dynamic_config_write_check(DynOps, dyn_blk, index,
                                                     keep))
          /\ dyn_deleted' = IF dyn_rc' = 0 /\ ~keep THEN {index} ELSE {}
    /\ UNCHANGED <<dyn_gen, dyn_blk>>
    /\ UNCHANGED <<pkVars, shift_ub, cfgVars, upVars, tasVars, laterVars>>

\* the call has returned and its frame is gone; the caller goes on to its
\* next call knowing what the call just before deleted
DynReturn ==
    /\ dyn_pc = "done"
    /\ dyn_pc' = "ready"
    /\ dyn_call' = << >>
    /\ dyn_rc' = 0
    /\ dyn_buf' = << >>
    /\ dyn_cmd' = ZeroCmd
    /\ dyn_retries' = 0
    /\ dyn_entry' = << >>
    /\ dyn_polls' = << >>
    /\ dyn_nwrites' = 0
    /\ dyn_npolls' = 0
    /\ dyn_spi_failed' = FALSE
    /\ dyn_deleted' = IF dyn_call.op = "write" THEN dyn_deleted ELSE {}
    /\ UNCHANGED <<dyn_gen, dyn_blk, dyn_hw>>
    /\ UNCHANGED <<pkVars, shift_ub, cfgVars, upVars, tasVars, laterVars>>

DynNext == DynRead \/ DynPoll \/ DynWrite \/ DynReturn

DynSpec == DynInit /\ [][DynNext]_vars

\* C6: a read whose argument checks pass sends one command write and then
\* polls at most 3 times; every poll before the last one saw the entry-exists
\* flag and the in-progress flag set; the call ends with -EINVAL on the poll
\* whose status has the entry-exists flag unset, with -ETIMEDOUT when the
\* 3rd poll still has the in-progress flag set, and otherwise with success
\* and the entry unpacked from the buffer of the last poll.
DynPollInProgress(p) == p.valid /\ p.valident

DynLastPoll == dyn_polls[Len(dyn_polls)]

C6_ReadPollsAtMostThreeTimes ==
    (dyn_pc \in {"poll", "done"} /\ dyn_call.op = "read" /\ dyn_nwrites > 0)
    => /\ dyn_nwrites = 1
       /\ dyn_npolls <= 3
       /\ Len(dyn_polls) <= dyn_npolls
       /\ \A n \in 1..(Len(dyn_polls) - 1) : DynPollInProgress(dyn_polls[n])
       /\ dyn_pc = "poll"
          => /\ Len(dyn_polls) = dyn_npolls
             /\ dyn_npolls < 3
             /\ dyn_polls # << >> => DynPollInProgress(DynLastPoll)
       /\ (dyn_pc = "done" /\ ~dyn_spi_failed)
          => /\ Len(dyn_polls) = dyn_npolls
             /\ dyn_polls # << >>
             /\ IF ~DynLastPoll.valident THEN dyn_rc = -EINVAL
                ELSE IF DynLastPoll.valid
                THEN dyn_npolls = 3 /\ dyn_rc = -ETIMEDOUT
                ELSE /\ dyn_rc = 0
                     /\ dyn_call.has_entry
                        => dyn_entry =
                             dyn_entry_packing(DynOps, dyn_buf,
                                               ZeroEntry(dyn_blk), UNPACK,
                                               shift_ub).rec

C6_Witness ==
    /\ dyn_pc = "done"
    /\ dyn_call.op = "read"
    /\ dyn_npolls = 3
    /\ Len(dyn_polls) = 3
    /\ dyn_rc = 0
    /\ dyn_call.has_entry

\* C7: a write that was transmitted returns -EINVAL whenever the switch set
\* the errors flag for the command, and success only when it did not.
C7_WriteReportsHardwareErrors ==
    (dyn_pc = "done" /\ dyn_call.op = "write" /\ dyn_nwrites = 1
     /\ ~dyn_spi_failed)
    => /\ dyn_hw.errors => dyn_rc = -EINVAL
       /\ dyn_rc = 0 => ~dyn_hw.errors

\* C8: for a kind that can be deleted and read, a read of an index that the
\* last write deleted with success, with no transfer failing, fails with
\* the not-found error -EINVAL.
C8_ReadAfterDeleteNotFound ==
    (/\ dyn_pc = "done"
     /\ dyn_call.op = "read"
     /\ dyn_call.index \in dyn_deleted
     /\ (OP_READ \cup OP_DEL) \subseteq DynOps.access
     /\ ~dyn_spi_failed)
    => dyn_rc = -EINVAL

\* a read of an index in range of a kind that can be read, of an entry the
\* switch holds, with no transfer failing and the switch not busy to the end
DynReadOfPresent ==
    /\ dyn_pc = "done"
    /\ dyn_call.op = "read"
    /\ OP_READ \subseteq DynOps.access
    /\ dyn_call.index < DynOps.max_entry_count
    /\ dyn_call.index \in dyn_hw.present
    /\ ~dyn_spi_failed
    /\ dyn_rc # -ETIMEDOUT

\* the entry at the index read as the entry codec of the kind carries it
DynHeldEntry ==
    dyn_entry_packing(DynOps,
        dyn_entry_packing(DynOps, ZeroBuf(MAX_DYN_CMD_SIZE),
                          DynEntry(dyn_blk, dyn_call.index), PACK,
                          shift_ub).buf,
        ZeroEntry(dyn_blk), UNPACK, shift_ub).rec

\* C29: for every kind and generation whose access rights include read, a
\* read of an index in range returns success with the entry whenever the
\* switch holds the entry and clears the in-progress flag within the 3
\* polls, and the entry-exists flag the loop tests is one that the command
\* codec of the kind unpacks from the response.
C29_ReadOfExistingEntrySucceeds ==
    DynReadOfPresent
    => /\ DynHasField(DynOps.cmd_packing, "valident")
       /\ dyn_rc = 0
       /\ dyn_call.has_entry => dyn_entry = DynHeldEntry

\* ------------------------------------------------------------------------
\* sja1105_tas.c: the time-aware shaper
\*
\* A time is a number of units of 2^tas_unit ns: of 2^TasUnitBits ns where
\* the 32-bit boundaries of div_u64_rem() are to be within reach, of
\* 2^TasFineUnitBits ns where the 200 ns cycles of the intervals are looked
\* at; a u64 that has wrapped is
\* the negative integer congruent to it modulo 2^64.  A port's program
\* (struct tc_taprio_qopt_offload) is [enable, base_time, cycle_time,
\* cycle_time_extension, entries], entries the sequence of its
\* [interval, gate_mask]; NoProgram is the NULL pointer.

TasUnitBits == 28
TasFineUnitBits == 3

SJA1105_TAS_CLKSRC_STANDALONE == 1
SJA1105_GATE_MASK == 0..(SJA1105_NUM_TC - 1)
SJA1105_TAS_MAX_DELTA == 2 ^ 19

Ports == 0..(SJA1105_NUM_PORTS - 1)
NoProgram == << >>

\* div_u64(ns, 200) of a time
sja1105_tas_cycles(t) == (t * (2 ^ (tas_unit - 3))) \div 25

\* 2^32 ns; (u32) x; (s32) x kept in a u64
TasU32 == 2 ^ (32 - tas_unit)
u32_of(x) == x % TasU32
s32_to_u64(x) == IF x >= TasU32 \div 2 THEN x - TasU32 ELSE x

\* div_u64_rem(dividend, divisor, &rem): the divisor is a u32 parameter
div_u64_rem(dividend, divisor) == dividend % u32_of(divisor)

\* a <= b, max(a, b) of two u64
u64_le(a, b) == IF (a < 0) = (b < 0) THEN a <= b ELSE b < 0
u64_max(a, b) == IF u64_le(a, b) THEN b ELSE a

TasMax(a, b) == IF a >= b THEN a ELSE b
TasMin(a, b) == IF a <= b THEN a ELSE b

RECURSIVE TasSum(_, _)
TasSum(f, S) ==
    IF S = {} THEN 0
    ELSE LET x == CHOOSE y \in S : TRUE IN f[x] + TasSum(f, S \ {x})

\* delta += entries[i].interval: the start of entry i (from 1) in its cycle
tas_delta(prog, i) ==
    TasSum([n \in 1..Len(prog.entries) |-> prog.entries[n].interval],
           1..(i - 1))

\* for (t = first; t <= stop_time; t += cycle_time): the values t takes
RECURSIVE tas_occurrences(_, _, _)
tas_occurrences(t, cycle_time, stop_time) ==
    IF u64_le(t, stop_time)
    THEN {t} \cup tas_occurrences(t + cycle_time, cycle_time, stop_time)
    ELSE {}

\* the four nested loops over i, j, t1, t2 with their "if (t1 == t2)"
tas_collide(tas_config, qopt, rbt1, rbt2, stop_time) ==
    \E i \in 1..Len(tas_config.entries), j \in 1..Len(qopt.entries) :
        tas_occurrences(rbt1 + tas_delta(tas_config, i),
                        tas_config.cycle_time, stop_time)
        \cap tas_occurrences(rbt2 + tas_delta(qopt, j), qopt.cycle_time,
                             stop_time) # {}

\* an enumeration that stops at max_cycle_time + rbt1
tas_collide_first_base(tas_config, qopt, max_cycle_time, rbt1, rbt2) ==
    tas_collide(tas_config, qopt, rbt1, rbt2, max_cycle_time + rbt1)

\* rbt1 = rem; rbt2 = rem, with s32 rem;
\* stop_time = max_cycle_time + max(rbt1, rbt2)
tas_collide_reduced(tas_config, qopt, max_cycle_time, rbt1, rbt2) ==
    tas_collide(tas_config, qopt, rbt1, rbt2,
                max_cycle_time + u64_max(rbt1, rbt2))

\* the body of the loop over the ports of sja1105_tas_check_conflicts() for
\* one port that has a program
tas_port_conflict(tas_config, qopt) ==
    \/ div_u64_rem(TasMax(tas_config.cycle_time, qopt.cycle_time),
                   TasMin(tas_config.cycle_time, qopt.cycle_time)) # 0
    \/ tas_collide_reduced(tas_config, qopt,
           TasMax(tas_config.cycle_time, qopt.cycle_time),
           s32_to_u64(div_u64_rem(tas_config.base_time,
                                  tas_config.cycle_time)),
           s32_to_u64(div_u64_rem(qopt.base_time, qopt.cycle_time)))

\* a check that stops at the first port that has a program
tas_check_first_port(port_config, qopt) ==
    \E port \in Ports :
        /\ port_config[port] # NoProgram
        /\ \A p \in Ports : p < port => port_config[p] = NoProgram
        /\ tas_port_conflict(port_config[port], qopt)

sja1105_tas_check_conflicts(port_config, qopt) ==
    \E port \in Ports :
        /\ port_config[port] # NoProgram
        /\ tas_port_conflict(port_config[port], qopt)

\* The four schedule tables of priv->static_config, each the sequence of its
\* entries.
TasTables ==
    {"BLK_IDX_SCHEDULE", "BLK_IDX_SCHEDULE_ENTRY_POINTS_PARAMS",
     "BLK_IDX_SCHEDULE_PARAMS", "BLK_IDX_SCHEDULE_ENTRY_POINTS"}

\* "Discard previous ...": entry_count = 0 in all four
TasNoTables == [k \in TasTables |-> << >>]

\* kcalloc(n, unpacked_entry_size)
tas_kcalloc(k, n) == [i \in 1..n |-> ZeroEntry(k)]

ActivePorts(port_config) ==
    {port \in Ports : port_config[port] # NoProgram}

\* num_entries += priv->tas_config[port]->num_entries
tas_num_entries(port_config, ports) ==
    TasSum([port \in Ports |-> Len(port_config[port].entries)], ports)

\* The four allocations in program order; fail is the one that returns NULL
\* (0: none does), after which the function returns -ENOMEM.
tas_allocated(port_config, fail) ==
    [k \in TasTables |->
        CASE k = "BLK_IDX_SCHEDULE" ->
               IF fail = 1 THEN << >>
               ELSE tas_kcalloc(k, tas_num_entries(port_config,
                                       ActivePorts(port_config)))
          [] k = "BLK_IDX_SCHEDULE_ENTRY_POINTS_PARAMS" ->
               IF fail \in {1, 2} THEN << >>
               ELSE tas_kcalloc(k, MAX_COUNT.SCHEDULE_ENTRY_POINTS_PARAMS)
          [] k = "BLK_IDX_SCHEDULE_PARAMS" ->
               IF fail \in {1, 2, 3} THEN << >>
               ELSE tas_kcalloc(k, MAX_COUNT.SCHEDULE_PARAMS)
          [] k = "BLK_IDX_SCHEDULE_ENTRY_POINTS" ->
               IF fail \in {1, 2, 3, 4} THEN << >>
               ELSE tas_kcalloc(k, Cardinality(ActivePorts(port_config)))]

\* schedule_entry_points[cycle].subschindx = cycle; .delta =
\* entry_point_delta; .address = schedule_start_idx
tas_entry_point_at_cycle(entry, cycle, delta, schedule_start_idx) ==
    [entry EXCEPT !.subschindx = BitsOf(cycle), !.delta = BitsOf(delta),
                  !.address = BitsOf(cycle)]

tas_entry_point(entry, cycle, delta, schedule_start_idx) ==
    [entry EXCEPT !.subschindx = BitsOf(cycle), !.delta = BitsOf(delta),
                  !.address = BitsOf(schedule_start_idx)]

\* schedule[k].delta = sja1105_tas_cycles(delta_ns); .destports = BIT(port);
\* .resmedia_en = true; .resmedia = SJA1105_GATE_MASK & ~gate_mask
tas_schedule_entry(entry, port, e) ==
    [entry EXCEPT !.delta = BitsOf(sja1105_tas_cycles(e.interval)),
                  !.destports = {port},
                  !.resmedia_en = {0},
                  !.resmedia = SJA1105_GATE_MASK \ e.gate_mask]

\* for (i = 0; i < tas_config->num_entries; i++, k++): st is [k, cycle,
\* subscheind, schedule, schedule_entry_points]
tas_fill_entries(st, port, tas_config) ==
    [st EXCEPT
        !.schedule =
            [n \in DOMAIN st.schedule |->
                IF n - 1 >= st.k /\ n - 1 < st.k + Len(tas_config.entries)
                THEN tas_schedule_entry(st.schedule[n], port,
                                        tas_config.entries[n - st.k])
                ELSE st.schedule[n]],
        !.k = st.k + Len(tas_config.entries),
        !.cycle = st.cycle + 1]

\* the body of the populating loop with subscheind[cycle] = schedule_end_idx
\* in place of the loop over i
tas_fill_port_own_thread(st, port, tas_config) ==
    tas_fill_entries(
        [st EXCEPT
            !.schedule_entry_points[st.cycle + 1] =
                tas_entry_point(@, st.cycle,
                                sja1105_tas_cycles(tas_config.base_time),
                                st.k),
            !.subscheind[st.cycle] = st.k + Len(tas_config.entries) - 1],
        port, tas_config)

\* the body of the populating loop for one port that has a program
tas_fill_port(st, port, tas_config) ==
    tas_fill_entries(
        [st EXCEPT
            !.schedule_entry_points[st.cycle + 1] =
                tas_entry_point(@, st.cycle,
                                sja1105_tas_cycles(tas_config.base_time),
                                st.k),
            !.subscheind =
                [i \in 0..7 |->
                    IF i >= st.cycle
                    THEN st.k + Len(tas_config.entries) - 1
                    ELSE st.subscheind[i]]],
        port, tas_config)

tas_fill(port_config, tables) ==
    ForLoop(LAMBDA st, port :
                IF port_config[port] = NoProgram THEN st
                ELSE tas_fill_port(st, port, port_config[port]),
            [k |-> 0, cycle |-> 0, subscheind |-> [i \in 0..7 |-> 0],
             schedule |-> tables["BLK_IDX_SCHEDULE"],
             schedule_entry_points |->
                 tables["BLK_IDX_SCHEDULE_ENTRY_POINTS"]],
            0, SJA1105_NUM_PORTS - 1)

\* schedule_entry_points_params->clksrc, ->actsubsch; the tables the loop
\* filled; schedule_params->subscheind[i] = subscheind[i]
tas_populated(tables, num_cycles, st) ==
    [k \in TasTables |->
        CASE k = "BLK_IDX_SCHEDULE" -> st.schedule
          [] k = "BLK_IDX_SCHEDULE_ENTRY_POINTS" -> st.schedule_entry_points
          [] k = "BLK_IDX_SCHEDULE_ENTRY_POINTS_PARAMS" ->
               << [tables[k][1] EXCEPT
                      !.clksrc = BitsOf(SJA1105_TAS_CLKSRC_STANDALONE),
                      !.actsubsch = BitsOf(num_cycles - 1)] >>
          [] k = "BLK_IDX_SCHEDULE_PARAMS" ->
               << [f \in DOMAIN tables[k][1] |->
                      IF \E i \in 0..7 : f = Elem("subscheind", i)
                      THEN BitsOf(st.subscheind[
                               CHOOSE i \in 0..7 : f = Elem("subscheind", i)])
                      ELSE tables[k][1][f]] >>]

\* st is what the loop over the ports leaves, a value worked out once
tas_populate(port_config, tables) ==
    CHOOSE populated \in
        {tas_populated(tables, Cardinality(ActivePorts(port_config)), st) :
            st \in {tas_fill(port_config, tables)}} : TRUE

\* sja1105_init_scheduling(): [rc, tables]
sja1105_init_scheduling(port_config, fail) ==
    IF ActivePorts(port_config) = {}
    THEN [rc |-> 0, tables |-> TasNoTables]
    ELSE IF fail # 0
    THEN [rc |-> -ENOMEM, tables |-> tas_allocated(port_config, fail)]
    ELSE [rc |-> 0,
          tables |-> tas_populate(port_config,
                                  tas_allocated(port_config, 0))]

\* if (!tas_config->cycle_time) for (i ...) tas_config->cycle_time +=
\* delta_ns: the cycle time the copy ends up with
tas_cycle_time(qopt) ==
    IF qopt.cycle_time # 0 THEN qopt.cycle_time
    ELSE tas_delta(qopt, Len(qopt.entries) + 1)

\* too_long alone for some entry of a program without a cycle time
tas_too_long_interval(qopt) ==
    /\ qopt.cycle_time = 0
    /\ \E i \in 1..Len(qopt.entries) :
          sja1105_tas_cycles(qopt.entries[i].interval)
              >= SJA1105_TAS_MAX_DELTA

\* too_long || too_short for some entry of a program without a cycle time
tas_bad_interval(qopt) ==
    /\ qopt.cycle_time = 0
    /\ \E i \in 1..Len(qopt.entries) :
          \/ sja1105_tas_cycles(qopt.entries[i].interval)
                >= SJA1105_TAS_MAX_DELTA
          \/ sja1105_tas_cycles(qopt.entries[i].interval) = 0

\* a request that is refused only when it enables a configured port
tas_mismatch_enable_only(port_config, port, qopt) ==
    qopt.enable /\ port_config[port] # NoProgram

\* if (!!priv->tas_config[port] == qopt->enable) return -EINVAL;
tas_mismatch(port_config, port, qopt) ==
    (port_config[port] # NoProgram) = qopt.enable

\* ---- the time-aware shaper specification ----

TasGates == 0..1

\* The programs offered to the ports: cycle, base time and intervals.
TasProgram(cycle_time, base_time, intervals) ==
    [enable |-> TRUE, base_time |-> base_time, cycle_time |-> cycle_time,
     cycle_time_extension |-> 0,
     entries |-> [i \in 1..Len(intervals) |->
                     [interval |-> intervals[i], gate_mask |-> TasGates]]]

\* The programs offered where a unit is 2^TasFineUnitBits ns: without a
\* cycle time but for one, with intervals of one 200 ns cycle and more, of
\* less than one, of 2^19 cycles and of a unit less, and with a base time
\* below one cycle.
TasFineCycle == (200 + 2 ^ TasFineUnitBits - 1) \div (2 ^ TasFineUnitBits)

TasFineOffers(port) ==
    CASE port = 0 ->
           {TasProgram(0, TasFineCycle, <<TasFineCycle, 2 * TasFineCycle>>),
            TasProgram(0, 2 * TasFineCycle,
                       <<SJA1105_TAS_MAX_DELTA * TasFineCycle - 1>>)}
      [] port = 1 ->
           {TasProgram(0, TasFineCycle, <<TasFineCycle - 1>>),
            TasProgram(0, TasFineCycle,
                       <<TasFineCycle, SJA1105_TAS_MAX_DELTA * TasFineCycle>>),
            TasProgram(0, TasFineCycle, <<3 * TasFineCycle>>)}
      [] port = 2 ->
           {TasProgram(0, TasFineCycle - 1, <<TasFineCycle>>),
            TasProgram(0, TasFineCycle + 5, <<3 * TasFineCycle>>)}
      [] port = 3 ->
           {TasProgram(6 * TasFineCycle, TasFineCycle + 10,
                       <<2 * TasFineCycle, 4 * TasFineCycle>>)}
      [] OTHER -> {}

TasCoarseOffers(port) ==
    CASE port = 0 -> {TasProgram(4, 4, <<4>>), TasProgram(12, 10, <<12>>)}
      [] port = 1 -> {TasProgram(12, 12, <<10, 2>>), TasProgram(2, 2, <<2>>),
                      TasProgram(2, 3, <<2>>), TasProgram(6, 2, <<6>>)}
      [] port = 2 -> {TasProgram(12, 7, <<7, 5>>)}
      [] port = 3 -> {TasProgram(12, 4, <<12>>), TasProgram(0, 1, <<1, 1>>)}
      [] OTHER -> {TasProgram(12, 5, <<12>>), TasProgram(4, 0, <<4>>),
                   [TasProgram(4, 4, <<4>>) EXCEPT
                       !.cycle_time_extension = 1]}

\* "tc qdisc del": a request with enable unset
TasDelete == [TasProgram(0, 0, << >>) EXCEPT !.enable = FALSE]

TasIdleCall ==
    [port |-> 0, request |-> NoProgram, qopt |-> NoProgram,
     checked |-> FALSE, conflict |-> FALSE, built |-> FALSE]

TasInit ==
    /\ PkIdle
    /\ LaterIdle
    /\ CfgIdle
    /\ UpIdle
    /\ DynIdle
    /\ shift_ub = "wrap"
    /\ tas_pc = "ready"
    /\ priv_tas_config = [port \in Ports |-> NoProgram]
    /\ tas_tables = TasNoTables
    /\ tas_rc = 0
    /\ tas_work = FALSE
    /\ tas_call = TasIdleCall
    /\ tas_unit = TasUnitBits

TasOffers(port) ==
    IF tas_unit = TasFineUnitBits THEN TasFineOffers(port)
    ELSE TasCoarseOffers(port)

\* sja1105_setup_taprio() returns rc before it touches priv
TasRefused(port, qopt, rc) ==
    /\ tas_rc' = rc
    /\ tas_call' = [TasIdleCall EXCEPT !.port = port, !.request = qopt,
                                       !.qopt = qopt]
    /\ UNCHANGED <<priv_tas_config, tas_tables, tas_work>>

\* sja1105_tas_check_conflicts() found a conflict: kfree(), -ERANGE
TasConflict(port, qopt, copy) ==
    /\ tas_rc' = -ERANGE
    /\ tas_call' = [TasIdleCall EXCEPT !.port = port, !.request = qopt,
                                       !.qopt = copy,
                                       !.checked = TRUE, !.conflict = TRUE]
    /\ UNCHANGED <<priv_tas_config, tas_tables, tas_work>>

\* rc = sja1105_init_scheduling(priv); if (rc < 0) return rc;
\* schedule_work(&priv->tas_config_work); return 0;
TasRebuilt(port, qopt, copy, checked, r) ==
    /\ tas_rc' = r.rc
    /\ tas_tables' = r.tables
    /\ tas_work' = (tas_work \/ r.rc = 0)
    /\ tas_call' = [port |-> port, request |-> qopt, qopt |-> copy,
                    checked |-> checked, conflict |-> FALSE, built |-> TRUE]

\* priv->tas_config[port] = tas_config (NULL when the qdisc is deleted);
\* fail is the allocation of sja1105_init_scheduling() that returns NULL
TasStored(port, qopt, copy, checked, new_config) ==
    /\ priv_tas_config' = new_config
    /\ \E fail \in 0..4 :
          TasRebuilt(port, qopt, copy, checked,
                     sja1105_init_scheduling(new_config, fail))

\* sja1105_setup_taprio() with the copy of qopt
TasCopied(port, qopt, copy) ==
    IF tas_bad_interval(qopt) THEN TasRefused(port, qopt, -ERANGE)
    ELSE IF sja1105_tas_check_conflicts(priv_tas_config, copy)
    THEN TasConflict(port, qopt, copy)
    ELSE TasStored(port, qopt, copy, TRUE,
                   [priv_tas_config EXCEPT ![port] = copy])

\* tas_config = tc_taprio_qopt_offload_copy(qopt), whose kzalloc() may fail
TasCopy(port, qopt) ==
    \/ TasRefused(port, qopt, -ENOMEM)
    \/ TasCopied(port, qopt,
                 [qopt EXCEPT !.cycle_time = tas_cycle_time(qopt)])

\* sja1105_setup_taprio(ds, port, qopt)
TasSetupTaprio ==
    /\ tas_pc = "ready"
    /\ \E port \in Ports : \E qopt \in TasOffers(port) \cup {TasDelete} :
          IF tas_mismatch(priv_tas_config, port, qopt)
          THEN TasRefused(port, qopt, -EINVAL)
          ELSE IF ~qopt.enable
          THEN TasStored(port, qopt, qopt, FALSE,
                         [priv_tas_config EXCEPT ![port] = NoProgram])
          ELSE IF qopt.cycle_time_extension # 0
          THEN TasRefused(port, qopt, -ENOTSUPP)
          ELSE IF sja1105_tas_cycles(qopt.base_time) = 0
          THEN TasRefused(port, qopt, -ERANGE)
          ELSE TasCopy(port, qopt)
    /\ UNCHANGED <<tas_pc, tas_unit>>
    /\ UNCHANGED <<pkVars, shift_ub, cfgVars, upVars, dynVars, laterVars>>

TasNext == TasSetupTaprio

TasSpec == TasInit /\ [][TasNext]_vars

\* the same with times in units of 2^TasFineUnitBits ns
TasFineInit ==
    /\ PkIdle
    /\ LaterIdle
    /\ CfgIdle
    /\ UpIdle
    /\ DynIdle
    /\ shift_ub = "wrap"
    /\ tas_pc = "ready"
    /\ priv_tas_config = [port \in Ports |-> NoProgram]
    /\ tas_tables = TasNoTables
    /\ tas_rc = 0
    /\ tas_work = FALSE
    /\ tas_call = TasIdleCall
    /\ tas_unit = TasFineUnitBits

TasFineSpec == TasFineInit /\ [][TasNext]_vars

\* the ports with a program in increasing order, and the entries the ones
\* before a port contribute
TasEarlier(port) == {p \in ActivePorts(priv_tas_config) : p < port}

TasSlotsBefore(port) == tas_num_entries(priv_tas_config, TasEarlier(port))

\* C9: after sja1105_init_scheduling() has returned 0, the Schedule table
\* has the sum of the entry counts of the ports with a program (and all
\* four tables are empty when no port has one), the Schedule Entry Points
\* table has one entry per such port, the c-th of them (ports in increasing
\* order, c from 0) has subschindx = c and address = the number of entries
\* of the earlier ports, and every slot of the range of port p, which starts
\* at that address, has destports = BIT(p).
C9_SchedulePartitionedByPort ==
    (tas_call.built /\ tas_rc = 0)
    => /\ Len(tas_tables["BLK_IDX_SCHEDULE"])
            = tas_num_entries(priv_tas_config, ActivePorts(priv_tas_config))
       /\ Len(tas_tables["BLK_IDX_SCHEDULE_ENTRY_POINTS"])
            = Cardinality(ActivePorts(priv_tas_config))
       /\ ActivePorts(priv_tas_config) = {} => tas_tables = TasNoTables
       /\ \A port \in ActivePorts(priv_tas_config) :
             /\ tas_tables["BLK_IDX_SCHEDULE_ENTRY_POINTS"]
                    [Cardinality(TasEarlier(port)) + 1].subschindx
                  = BitsOf(Cardinality(TasEarlier(port)))
             /\ tas_tables["BLK_IDX_SCHEDULE_ENTRY_POINTS"]
                    [Cardinality(TasEarlier(port)) + 1].address
                  = BitsOf(TasSlotsBefore(port))
             /\ \A n \in 1..Len(priv_tas_config[port].entries) :
                   tas_tables["BLK_IDX_SCHEDULE"]
                       [TasSlotsBefore(port) + n].destports = {port}

C9_Witness ==
    /\ tas_call.built
    /\ tas_rc = 0
    /\ Cardinality(ActivePorts(priv_tas_config)) >= 3
    /\ priv_tas_config[1] # NoProgram
    /\ priv_tas_config[4] # NoProgram
    /\ Len(priv_tas_config[1].entries) = 2

\* the gate events of two programs coincide at some time: there are entries
\* i, j and m, n >= 0 with rbt1 + delta1_i + m * cycle_time1
\* = rbt2 + delta2_j + n * cycle_time2
TasHorizon == 12

TasCoincide(p1, p2) ==
    \E i \in 1..Len(p1.entries), j \in 1..Len(p2.entries),
       m \in 0..TasHorizon, n \in 0..TasHorizon :
        (p1.base_time % p1.cycle_time) + tas_delta(p1, i) + m * p1.cycle_time
        = (p2.base_time % p2.cycle_time) + tas_delta(p2, j)
          + n * p2.cycle_time

\* the programs established when sja1105_tas_check_conflicts() ran
TasEstablished == [priv_tas_config EXCEPT ![tas_call.port] = NoProgram]

TasMultiples(p1, p2) ==
    \/ p1.cycle_time % p2.cycle_time = 0
    \/ p2.cycle_time % p1.cycle_time = 0

\* C10: when the cycle time of the candidate and the one of every
\* established program are multiples of one another (and every entry starts
\* within its own cycle), sja1105_tas_check_conflicts() returns true if and
\* only if a gate event of the candidate coincides with one of an
\* established program.
C10_ConflictIffCoincidence ==
    (/\ tas_call.checked
     /\ \A port \in ActivePorts(TasEstablished) :
           TasMultiples(TasEstablished[port], tas_call.qopt))
    => (tas_call.conflict
        <=> \E port \in ActivePorts(TasEstablished) :
               TasCoincide(TasEstablished[port], tas_call.qopt))

\* priv->tas_config with one program, on one port
TasOnly(port, prog) ==
    [q \in Ports |-> IF q = port THEN prog ELSE NoProgram]

\* C11: the conflict check is symmetric.  Whenever sja1105_setup_taprio() has
\* checked a candidate, then for every program established on another port
\* the check of the candidate against that program alone gives the same
\* answer as the check of that program, as the candidate, against the
\* candidate alone as the established one.
C11_ConflictCheckSymmetric ==
    tas_call.checked
    => \A p \in Ports :
          TasEstablished[p] # NoProgram
          => (sja1105_tas_check_conflicts(TasOnly(p, TasEstablished[p]),
                                          tas_call.qopt)
              <=> sja1105_tas_check_conflicts(
                      TasOnly(tas_call.port, tas_call.qopt),
                      TasEstablished[p]))

\* a candidate was refused for its conflict with a program of another cycle
\* time and another reduced base time, found in either order
C11_Witness ==
    /\ tas_call.checked
    /\ tas_call.conflict
    /\ \E p \in Ports :
          /\ TasEstablished[p] # NoProgram
          /\ TasEstablished[p].cycle_time # tas_call.qopt.cycle_time
          /\ TasEstablished[p].base_time # tas_call.qopt.base_time
          /\ Len(TasEstablished[p].entries) # Len(tas_call.qopt.entries)
          /\ sja1105_tas_check_conflicts(TasOnly(p, TasEstablished[p]),
                                         tas_call.qopt)
          /\ sja1105_tas_check_conflicts(
                 TasOnly(tas_call.port, tas_call.qopt), TasEstablished[p])

\* C22: sja1105_setup_taprio() returns -EINVAL for an enable request on a
\* port that has a program and for a disable request on a port that has
\* none, and then leaves the programs of all ports and the four schedule
\* tables as they were and schedules no upload work.
C22_MismatchRejected ==
    [][((priv_tas_config[tas_call'.port] # NoProgram)
           = tas_call'.qopt.enable)
       => /\ tas_rc' = -EINVAL
          /\ UNCHANGED <<priv_tas_config, tas_tables, tas_work>>]_vars

\* an enable request was refused on a port that has a program, while another
\* port has one as well
C22_Witness ==
    /\ tas_rc = -EINVAL
    /\ tas_call.qopt # NoProgram
    /\ tas_call.qopt.enable
    /\ priv_tas_config[tas_call.port] # NoProgram
    /\ Cardinality(ActivePorts(priv_tas_config)) >= 2

\* schedule_params->subscheind[c] and the number of ports with a program
TasSubscheind(c) ==
    ToInt(tas_tables["BLK_IDX_SCHEDULE_PARAMS"][1][Elem("subscheind", c)])

TasNumCycles == Cardinality(ActivePorts(priv_tas_config))

\* C23: after sja1105_init_scheduling() with N >= 1 ports that have a
\* program, subscheind[c] for c < N is the index of the last Schedule slot
\* of the c-th such port, subscheind[0] <= ... <= subscheind[7], every
\* unused thread c >= N has subscheind[c] = subscheind[N - 1], and
\* actsubsch = N - 1.
C23_SubscheduleEnds ==
    (tas_call.built /\ tas_rc = 0 /\ TasNumCycles >= 1)
    => /\ \A port \in ActivePorts(priv_tas_config) :
             TasSubscheind(Cardinality(TasEarlier(port)))
                 = TasSlotsBefore(port)
                     + Len(priv_tas_config[port].entries) - 1
       /\ \A c \in 0..6 : TasSubscheind(c) <= TasSubscheind(c + 1)
       /\ \A c \in TasNumCycles..7 :
             TasSubscheind(c) = TasSubscheind(TasNumCycles - 1)
       /\ tas_tables["BLK_IDX_SCHEDULE_ENTRY_POINTS_PARAMS"][1].actsubsch
             = BitsOf(TasNumCycles - 1)

\* three ports have a program, the second of them one of two entries
C23_Witness ==
    /\ tas_call.built
    /\ tas_rc = 0
    /\ TasNumCycles = 3
    /\ priv_tas_config[1] # NoProgram
    /\ Len(priv_tas_config[1].entries) = 2
    /\ TasSubscheind(1) > TasSubscheind(0)
    /\ TasSubscheind(7) = TasSubscheind(2)

\* every two ports that have a program are free of conflicts as
\* sja1105_tas_check_conflicts() judges them
TasPairwiseFree ==
    \A p \in Ports, q \in Ports :
        (p # q /\ priv_tas_config[p] # NoProgram
               /\ priv_tas_config[q] # NoProgram)
        => ~sja1105_tas_check_conflicts(TasOnly(p, priv_tas_config[p]),
                                        priv_tas_config[q])

\* C25: after any sequence of enable and disable requests, accepted or
\* refused, that starts with no port configured, every two distinct ports
\* that have a program are free of conflicts with one another as
\* sja1105_tas_check_conflicts() judges them; an enable request that gets
\* as far as the check with a program that conflicts with a stored one is
\* refused with -ERANGE and leaves the programs and the schedule tables as
\* they were.
C25_StoredProgramsConflictFree ==
    /\ []TasPairwiseFree
    /\ [][(/\ tas_call'.checked
           /\ sja1105_tas_check_conflicts(priv_tas_config, tas_call'.qopt))
          => /\ tas_rc' = -ERANGE
             /\ UNCHANGED <<priv_tas_config, tas_tables>>]_vars

\* a program was refused for its conflict with one of the three stored ones
C25_Witness ==
    /\ tas_call.checked
    /\ tas_call.conflict
    /\ tas_rc = -ERANGE
    /\ TasNumCycles = 3
    /\ priv_tas_config[tas_call.port] = NoProgram
    /\ TasPairwiseFree

\* priv->static_config of an SJA1105T: the tables the driver builds at probe
\* time and the four schedule tables as they stand
TasStaticConfig ==
    [sja1105_static_config_load("T", 1) EXCEPT
        !.tables = [k \in DOMAIN @ |->
                       IF k \in TasTables THEN Table(tas_tables[k])
                       ELSE @[k]]]

\* C26: on a device that supports TTEthernet, with a static configuration
\* that was valid before, sja1105_static_config_check_valid() still returns
\* SJA1105_CONFIG_OK after a successful sja1105_setup_taprio() that leaves
\* at least one port (1 to 5) with a program.
C26_ScheduleKeepsConfigValid ==
    (/\ tas_call.built
     /\ tas_rc = 0
     /\ TasNumCycles >= 1
     /\ sja1105_static_config_check_valid(
            sja1105_static_config_load("T", 1)) = SJA1105_CONFIG_OK)
    => sja1105_static_config_check_valid(TasStaticConfig) = SJA1105_CONFIG_OK

\* the value of field f of entry fits the window the codec gives it
TasFieldFits(codec, entry, f) ==
    \A n \in 1..Len(codec) :
        codec[n][1] = f => entry[f] \subseteq 0..(codec[n][2] - codec[n][3])

\* C27: every value sja1105_init_scheduling() writes after a successful
\* sja1105_setup_taprio(), with or without a cycle_time in the request, fits
\* the width its codec gives the field: each Schedule delta is >= 1 and
\* fits bits 25..8, each entry point delta fits bits 28..11, each entry
\* point address and each subscheind fits 10 bits, subschindx and actsubsch
\* fit 3 bits.
C27_ScheduleValuesFit ==
    (tas_call.built /\ tas_rc = 0 /\ TasNumCycles >= 1)
    => /\ \A n \in 1..Len(tas_tables["BLK_IDX_SCHEDULE"]) :
             /\ tas_tables["BLK_IDX_SCHEDULE"][n].delta # {}
             /\ TasFieldFits(sja1105_schedule_entry_packing,
                             tas_tables["BLK_IDX_SCHEDULE"][n], "delta")
       /\ \A n \in 1..Len(tas_tables["BLK_IDX_SCHEDULE_ENTRY_POINTS"]) :
             \A f \in {"delta", "address", "subschindx"} :
                 TasFieldFits(sja1105_schedule_entry_points_entry_packing,
                              tas_tables["BLK_IDX_SCHEDULE_ENTRY_POINTS"][n],
                              f)
       /\ \A c \in 0..7 :
             TasFieldFits(sja1105_schedule_params_entry_packing,
                          tas_tables["BLK_IDX_SCHEDULE_PARAMS"][1],
                          Elem("subscheind", c))
       /\ TasFieldFits(sja1105_schedule_entry_points_params_entry_packing,
                       tas_tables["BLK_IDX_SCHEDULE_ENTRY_POINTS_PARAMS"][1],
                       "actsubsch")

\* some interval of the program divided by 200 ns is 0 or is >= 2^19
TasIntervalOutOfRange(prog) ==
    \E i \in 1..Len(prog.entries) :
        \/ sja1105_tas_cycles(prog.entries[i].interval) = 0
        \/ sja1105_tas_cycles(prog.entries[i].interval) >= 2 ^ 19

\* the sum of the intervals of the program
TasIntervalSum(prog) ==
    TasSum([n \in 1..Len(prog.entries) |-> prog.entries[n].interval],
           1..Len(prog.entries))

\* the step is a call with a request that has no cycle_time
TasNoCycleTimeCall ==
    /\ tas_call'.request # NoProgram
    /\ tas_call'.request.enable
    /\ tas_call'.request.cycle_time = 0

\* the request gets to the loop over the intervals: the port has no
\* program, there is no cycle_time_extension, the base time is one cycle at
\* least and the copy of the request was allocated
TasReachesIntervals ==
    /\ TasNoCycleTimeCall
    /\ priv_tas_config[tas_call'.port] = NoProgram
    /\ tas_call'.request.cycle_time_extension = 0
    /\ sja1105_tas_cycles(tas_call'.request.base_time) # 0
    /\ ~(tas_rc' = -ENOMEM /\ UNCHANGED priv_tas_config)

\* C21 as stated: when a request does not supply a cycle_time (and gets to
\* the loop over its intervals), sja1105_setup_taprio() fails with -ERANGE
\* if and only if some interval divided by 200 is 0 or is >= 2^19; on such a
\* failure the stored programs and the schedule tables are unchanged;
\* otherwise the stored program's cycle_time is the sum of its intervals.
C21_RangeErrorIffInterval ==
    [][TasReachesIntervals
       => /\ (tas_rc' = -ERANGE)
                <=> TasIntervalOutOfRange(tas_call'.request)
          /\ tas_rc' = -ERANGE
                => UNCHANGED <<priv_tas_config, tas_tables>>
          /\ tas_rc' # -ERANGE
                => /\ priv_tas_config'[tas_call'.port] # NoProgram
                   /\ priv_tas_config'[tas_call'.port].cycle_time
                         = TasIntervalSum(tas_call'.request)]_vars

\* C21: an enable request without a cycle_time that gets to the loop over
\* its intervals fails with -ERANGE when some interval divided by 200 is 0
\* or is >= 2^19; when none is, it fails with -ERANGE if and only if
\* sja1105_tas_check_conflicts() finds a conflict with a stored program; on
\* either failure the stored programs and the schedule tables are
\* unchanged; otherwise the stored program's cycle_time is the sum of its
\* intervals.
C21_IntervalRange ==
    [][TasReachesIntervals
       => /\ TasIntervalOutOfRange(tas_call'.request) => tas_rc' = -ERANGE
          /\ ~TasIntervalOutOfRange(tas_call'.request)
                => ((tas_rc' = -ERANGE)
                    <=> sja1105_tas_check_conflicts(
                            priv_tas_config,
                            [tas_call'.request EXCEPT
                                !.cycle_time =
                                    TasIntervalSum(tas_call'.request)]))
          /\ tas_rc' = -ERANGE
                => UNCHANGED <<priv_tas_config, tas_tables>>
          /\ tas_rc' # -ERANGE
                => /\ priv_tas_config'[tas_call'.port] # NoProgram
                   /\ priv_tas_config'[tas_call'.port].cycle_time
                         = TasIntervalSum(tas_call'.request)]_vars

\* a program of two intervals without a cycle_time was stored next to
\* another, with the sum of its intervals as its cycle time
C21_Witness ==
    /\ tas_call.built
    /\ tas_rc = 0
    /\ tas_call.request # NoProgram
    /\ tas_call.request.enable
    /\ tas_call.request.cycle_time = 0
    /\ Len(tas_call.request.entries) = 2
    /\ TasNumCycles >= 2
    /\ priv_tas_config[tas_call.port].cycle_time
          = tas_call.request.entries[1].interval
              + tas_call.request.entries[2].interval

\* ---- the upload work next to sja1105_setup_taprio() ----
\* sja1105_setup_taprio() runs in its caller's context and
\* sja1105_tas_config_work() on a worker of the system workqueue; neither
\* sja1105_tas_config_work() nor sja1105_static_config_reload() takes a lock,
\* so each statement of one may run between two statements of the other.

MaxWorkChanges == 3

WkPorts == {0, 1}

\* the programs that are asked for: one per port, and they do not collide
WkOffers(port) ==
    IF port = 0 THEN {TasProgram(4, 4, <<4>>)}
    ELSE {TasProgram(12, 10, <<10, 2>>)}

\* the allocation of sja1105_init_scheduling() that returns NULL: none, or
\* the last one
WkAllocs == {0, 4}

WkRebuilding == wk_pc \in {"allocate", "populate"}

WkInit ==
    /\ PkIdle
    /\ TblIdle
    /\ TmpIdle
    /\ SendIdle
    /\ PairIdle
    /\ CfgIdle
    /\ UpIdle
    /\ DynIdle
    /\ shift_ub = "wrap"
    /\ tas_pc = "ready"
    /\ priv_tas_config = [port \in Ports |-> NoProgram]
    /\ tas_tables = TasNoTables
    /\ tas_rc = 0
    /\ tas_work = FALSE
    /\ tas_call = TasIdleCall
    /\ tas_unit = TasUnitBits
    /\ wk_pc = "ready"
    /\ wk_worker = "idle"
    /\ wk_freed = TasNoTables
    /\ wk_buf = TasNoTables
    /\ wk_torn = FALSE
    /\ wk_version = 0
    /\ wk_seen = [read |-> 0, up |-> 0]

\* priv->tas_config[port] = tas_config (NULL when the qdisc is deleted);
\* the call goes on to sja1105_init_scheduling()
WkStored(port, qopt, copy, checked, new_config) ==
    /\ priv_tas_config' = new_config
    /\ tas_call' = [port |-> port, request |-> qopt, qopt |-> copy,
                    checked |-> checked, conflict |-> FALSE, built |-> FALSE]
    /\ UNCHANGED <<tas_tables, tas_rc, tas_work>>

WkCopied(port, qopt, copy) ==
    IF tas_bad_interval(qopt) THEN TasRefused(port, qopt, -ERANGE)
    ELSE IF sja1105_tas_check_conflicts(priv_tas_config, copy)
    THEN TasConflict(port, qopt, copy)
    ELSE WkStored(port, qopt, copy, TRUE,
                  [priv_tas_config EXCEPT ![port] = copy])

WkCopy(port, qopt) ==
    \/ TasRefused(port, qopt, -ENOMEM)
    \/ WkCopied(port, qopt,
                [qopt EXCEPT !.cycle_time = tas_cycle_time(qopt)])

\* sja1105_setup_taprio() up to its call of sja1105_init_scheduling()
WkSetupTaprio ==
    /\ wk_pc = "ready"
    /\ wk_version < MaxWorkChanges
    /\ \E port \in WkPorts : \E qopt \in WkOffers(port) \cup {TasDelete} :
          IF tas_mismatch(priv_tas_config, port, qopt)
          THEN TasRefused(port, qopt, -EINVAL)
          ELSE IF ~qopt.enable
          THEN WkStored(port, qopt, qopt, FALSE,
                        [priv_tas_config EXCEPT ![port] = NoProgram])
          ELSE IF qopt.cycle_time_extension # 0
          THEN TasRefused(port, qopt, -ENOTSUPP)
          ELSE IF sja1105_tas_cycles(qopt.base_time) = 0
          THEN TasRefused(port, qopt, -ERANGE)
          ELSE WkCopy(port, qopt)
    /\ wk_pc' = IF priv_tas_config' # priv_tas_config THEN "discard"
                ELSE "ready"
    /\ UNCHANGED <<tas_pc, tas_unit, wk_worker, wk_freed, wk_buf, wk_torn,
                   wk_version, wk_seen>>
    /\ UNCHANGED <<pkVars, shift_ub, cfgVars, upVars, dynVars,
                   tblVars, tmpVars, sendVars, pairVars>>

\* sja1105_init_scheduling(): kfree(table->entries); table->entry_count = 0
\* for the four tables; "No TAS configured, nothing to allocate": return 0
WkDiscard ==
    /\ wk_pc = "discard"
    /\ wk_freed' = tas_tables
    /\ tas_tables' = TasNoTables
    /\ IF ActivePorts(priv_tas_config) = {}
       THEN /\ wk_pc' = "schedule"
            /\ wk_version' = wk_version + 1
            /\ tas_call' = [tas_call EXCEPT !.built = TRUE]
       ELSE /\ wk_pc' = "allocate"
            /\ UNCHANGED <<wk_version, tas_call>>
    /\ UNCHANGED <<tas_pc, tas_unit, priv_tas_config, tas_rc, tas_work,
                   wk_worker, wk_buf, wk_torn, wk_seen>>
    /\ UNCHANGED <<pkVars, shift_ub, cfgVars, upVars, dynVars,
                   tblVars, tmpVars, sendVars, pairVars>>

\* sja1105_init_scheduling(): the four kcalloc() and entry_count
\* assignments; fail is the allocation that returns NULL (return -ENOMEM)
WkAllocate ==
    /\ wk_pc = "allocate"
    /\ \E fail \in WkAllocs :
          /\ tas_tables' = tas_allocated(priv_tas_config, fail)
          /\ IF fail # 0
             THEN /\ tas_rc' = -ENOMEM
                  /\ tas_call' = [tas_call EXCEPT !.built = TRUE]
                  /\ wk_pc' = "ready"
             ELSE /\ wk_pc' = "populate"
                  /\ UNCHANGED <<tas_rc, tas_call>>
    /\ UNCHANGED <<tas_pc, tas_unit, priv_tas_config, tas_work,
                   wk_worker, wk_freed, wk_buf, wk_torn, wk_version, wk_seen>>
    /\ UNCHANGED <<pkVars, shift_ub, cfgVars, upVars, dynVars,
                   tblVars, tmpVars, sendVars, pairVars>>

\* sja1105_init_scheduling(): "Finally start populating the static config
\* tables"; return 0
WkPopulate ==
    /\ wk_pc = "populate"
    /\ tas_tables' = tas_populate(priv_tas_config, tas_tables)
    /\ tas_call' = [tas_call EXCEPT !.built = TRUE]
    /\ wk_version' = wk_version + 1
    /\ wk_pc' = "schedule"
    /\ UNCHANGED <<tas_pc, tas_unit, priv_tas_config, tas_rc, tas_work,
                   wk_worker, wk_freed, wk_buf, wk_torn, wk_seen>>
    /\ UNCHANGED <<pkVars, shift_ub, cfgVars, upVars, dynVars,
                   tblVars, tmpVars, sendVars, pairVars>>

\* schedule_work(&priv->tas_config_work); return 0;
WkScheduleWork ==
    /\ wk_pc = "schedule"
    /\ tas_work' = TRUE
    /\ tas_rc' = 0
    /\ wk_pc' = "ready"
    /\ UNCHANGED <<tas_pc, tas_unit, priv_tas_config, tas_tables, tas_call,
                   wk_worker, wk_freed, wk_buf, wk_torn, wk_version, wk_seen>>
    /\ UNCHANGED <<pkVars, shift_ub, cfgVars, upVars, dynVars,
                   tblVars, tmpVars, sendVars, pairVars>>

\* the workqueue clears the pending bit and calls
\* sja1105_tas_config_work(); a work item never runs twice at a time
WkWorkStart ==
    /\ tas_work
    /\ wk_worker = "idle"
    /\ tas_work' = FALSE
    /\ wk_worker' = "run"
    /\ UNCHANGED <<tas_pc, tas_unit, priv_tas_config, tas_tables, tas_rc,
                   tas_call, wk_pc, wk_freed, wk_buf, wk_torn, wk_version, wk_seen>>
    /\ UNCHANGED <<pkVars, shift_ub, cfgVars, upVars, dynVars,
                   tblVars, tmpVars, sendVars, pairVars>>

\* What the worker can find in the schedule tables: the tables as they
\* are, or, while the caller is between kfree() and the end of the
\* population, also the entries that were freed.
WkReadable == IF WkRebuilding THEN {tas_tables, wk_freed} ELSE {tas_tables}

\* sja1105_static_config_reload() -> sja1105_static_config_upload():
\* sja1105_static_config_get_length() and static_config_buf_prepare_for_
\* upload() read entry_count and entries of every table
WkWorkRead ==
    /\ wk_worker = "run"
    /\ \E found \in WkReadable : wk_buf' = found
    /\ wk_torn' = (wk_torn \/ WkRebuilding)
    /\ wk_seen' = [wk_seen EXCEPT
                      !.read = IF WkRebuilding THEN 0 ELSE wk_version]
    /\ wk_worker' = "upload"
    /\ UNCHANGED <<tasVars, wk_pc, wk_freed, wk_version>>
    /\ UNCHANGED <<pkVars, shift_ub, cfgVars, upVars, dynVars,
                   tblVars, tmpVars, sendVars, pairVars>>

\* sja1105_static_config_upload() sends the buffer; the work returns
WkWorkDone ==
    /\ wk_worker = "upload"
    /\ wk_seen' = [wk_seen EXCEPT !.up = wk_seen.read]
    /\ wk_worker' = "idle"
    /\ UNCHANGED <<tasVars, wk_pc, wk_freed, wk_buf, wk_torn, wk_version>>
    /\ UNCHANGED <<pkVars, shift_ub, cfgVars, upVars, dynVars,
                   tblVars, tmpVars, sendVars, pairVars>>

WkCaller == WkDiscard \/ WkAllocate \/ WkPopulate \/ WkScheduleWork

WkWorker == WkWorkStart \/ WkWorkRead \/ WkWorkDone

WkNext ==
    \/ WkSetupTaprio
    \/ WkDiscard
    \/ WkAllocate
    \/ WkPopulate
    \/ WkScheduleWork
    \/ WkWorkStart
    \/ WkWorkRead
    \/ WkWorkDone

\* a call that entered sja1105_init_scheduling() runs to its return, and
\* the workqueue runs every pending work item
WorkSpec ==
    /\ WkInit
    /\ [][WkNext]_vars
    /\ WF_vars(WkCaller)
    /\ WF_vars(WkWorker)

\* C30: the upload work never reads a schedule table between the discard
\* of sja1105_init_scheduling() and the end of the repopulation, and every
\* accepted schedule change is eventually followed by an upload of the
\* tables as they stand after that change or a later one.
C30_UploadNeverInterleaved ==
    /\ [](~wk_torn)
    /\ \A v \in 1..MaxWorkChanges :
          (wk_version = v /\ wk_pc = "ready") ~> (wk_seen.up >= v)

\* ------------------------------------------------------------------------
\* sja1105_static_config.c: sja1105_table_delete_entry(),
\* sja1105_table_resize() and sja1105_static_config_check_valid() applied to
\* a configuration.  A table is [entry_count, entries]; entries holds the
\* slots that were allocated, of which the first entry_count are in use.
\* entry_count is a size_t: one that went below 0 is held as the negative
\* integer congruent to it modulo 2^64.

\* what a read past the end of the allocation may find
TblGarbage(k) == {Eval([f \in StructFields(k) |-> g]) : g \in {{}, {0}}}

\* memmove(entries + i * entry_size, entries + (i + 1) * entry_size,
\*         (table->entry_count - i) * entry_size)
\* the slot after the last one in use is read as well: it is garbage when
\* the allocation ends there
tbl_memmove(table, i, garbage) ==
    [j \in 1..Len(table.entries) |->
        IF j >= i + 1 /\ j <= table.entry_count
        THEN IF j + 1 <= Len(table.entries) THEN table.entries[j + 1]
             ELSE garbage
        ELSE table.entries[j]]

\* if (i > table->entry_count) return -ERANGE;   (int against size_t)
\* memmove(...); table->entry_count--; return 0;
sja1105_table_delete_entry(table, i, garbage) ==
    IF ~u64_le(i, table.entry_count)
    THEN [rc |-> -ERANGE, table |-> table]
    ELSE [rc |-> 0,
          table |-> [entry_count |-> table.entry_count - 1,
                     entries |-> tbl_memmove(table, i, garbage)]]

TblMin(a, b) == IF a <= b THEN a ELSE b

\* a resize that keeps the slots it did not copy as they were allocated
table_resize_uncleared(table, ops, k, new_count, alloc_ok) ==
    IF new_count > ops.max_entry_count THEN [rc |-> -ERANGE, table |-> table]
    ELSE IF ~alloc_ok THEN [rc |-> -ENOMEM, table |-> table]
    ELSE [rc |-> 0,
          table |-> [entry_count |-> new_count,
                     entries |->
                         [j \in 1..new_count |->
                             IF j <= TblMin(new_count, table.entry_count)
                             THEN table.entries[j]
                             ELSE Eval([f \in StructFields(k) |-> {0}])]]]

\* new_entries = kcalloc(new_count, entry_size, GFP_KERNEL);
\* memcpy(new_entries, old_entries, min(new_count, entry_count) * entry_size)
sja1105_table_resize(table, ops, k, new_count, alloc_ok) ==
    IF new_count > ops.max_entry_count THEN [rc |-> -ERANGE, table |-> table]
    ELSE IF ~alloc_ok THEN [rc |-> -ENOMEM, table |-> table]
    ELSE [rc |-> 0,
          table |-> [entry_count |-> new_count,
                     entries |->
                         [j \in 1..new_count |->
                             IF j <= TblMin(new_count, table.entry_count)
                             THEN table.entries[j]
                             ELSE ZeroEntry(k)]]]

\* ---- the table operations specification ----

MaxTableOps == 2

\* one E/T and one P/Q/R/S switch, the first with TTEthernet
TblVariants == {"T", "P"}

\* the tables sja1105_static_config_check_valid() wants complete
TblRequired ==
    {"BLK_IDX_L2_FORWARDING", "BLK_IDX_MAC_CONFIG",
     "BLK_IDX_L2_FORWARDING_PARAMS", "BLK_IDX_GENERAL_PARAMS",
     "BLK_IDX_XMII_PARAMS"}

TblKinds == TblRequired \cup {"BLK_IDX_L2_POLICING"}

\* the frame memory the partitions of the initial configuration ask for
\* beyond the budget, whether the VL forwarding parameters are populated,
\* and whether there is a retagging rule
TblChoices ==
    {[over |-> o, vl |-> vl, retag |-> r] :
        o \in {0, 1}, vl \in BOOLEAN, r \in BOOLEAN}

TblBudget(retag) ==
    IF retag THEN MAX_FRAME_MEMORY_RETAGGING ELSE MAX_FRAME_MEMORY

TblVlPartitions ==
    Entry("BLK_IDX_VL_FORWARDING_PARAMS",
          [f \in {Elem("partspc", 2)} |-> BitsOf(5)])

TblL2Partitions(total) ==
    Entry("BLK_IDX_L2_FORWARDING_PARAMS",
          (Elem("part_spc", 0) :> BitsOf(total - 3))
          @@ (Elem("part_spc", 7) :> BitsOf(3)))

TblConfig(v, ch) ==
    [sja1105_static_config_load(v, 1) EXCEPT
        !.tables["BLK_IDX_RETAGGING"] =
            IF ch.retag
            THEN Table(<<ZeroEntry("BLK_IDX_RETAGGING")>>)
            ELSE EmptyTable,
        !.tables["BLK_IDX_VL_FORWARDING_PARAMS"] =
            IF ch.vl THEN Table(<<TblVlPartitions>>) ELSE EmptyTable,
        !.tables["BLK_IDX_L2_FORWARDING_PARAMS"] =
            Table(<<TblL2Partitions(TblBudget(ch.retag) + ch.over
                                    - (IF ch.vl THEN 5 ELSE 0))>>)]

TblInit ==
    /\ PkIdle
    /\ CfgIdle
    /\ UpIdle
    /\ DynIdle
    /\ TasIdle
    /\ TmpIdle
    /\ SendIdle
    /\ WkIdle
    /\ PairIdle
    /\ shift_ub = "wrap"
    /\ tbl_pc = "ready"
    /\ \E v \in TblVariants, ch \in TblChoices :
          /\ (ch.vl => SUPPORTS_TTETHERNET(VariantDeviceId(v)))
          /\ tbl_config = TblConfig(v, ch)
    /\ tbl_prev = tbl_config.tables
    /\ tbl_call = [op |-> "none", blk_idx |-> "BLK_IDX_INVAL", arg |-> 0]
    /\ tbl_rc = 0
    /\ tbl_nops = 0

\* the operation on table k returned r = [rc, table]
TblDone(op, k, arg, r) ==
    /\ tbl_call' = [op |-> op, blk_idx |-> k, arg |-> arg]
    /\ tbl_rc' = r.rc
    /\ tbl_prev' = tbl_config.tables
    /\ tbl_config' = [tbl_config EXCEPT !.tables[k] = r.table]
    /\ tbl_nops' = tbl_nops + 1
    /\ tbl_pc' = IF r.table.entry_count < 0 THEN "wrapped" ELSE "ready"

\* the indices and counts a caller passes for a table of n entries
TblIndices(n) == {-1, 0, n}

TblCounts(n, max) == {c \in {n - 1, n + 1, max + 1} : c >= 0}

\* what the memmove() of a delete at index i may read past the allocation
TblPastEnd(table, k, i) ==
    IF i >= 0 /\ i < table.entry_count
       /\ table.entry_count = Len(table.entries)
    THEN TblGarbage(k)
    ELSE {ZeroEntry(k)}

\* whether kcalloc() gives memory, where sja1105_table_resize() gets to it
TblAllocs(new_count, max) ==
    IF new_count > max THEN {TRUE} ELSE BOOLEAN

\* sja1105_table_delete_entry(&config->tables[k], i)
TblDelete ==
    /\ tbl_pc = "ready"
    /\ tbl_nops < MaxTableOps
    /\ \E k \in TblKinds :
          \E i \in TblIndices(tbl_config.tables[k].entry_count) :
          \E garbage \in TblPastEnd(tbl_config.tables[k], k, i) :
             TblDone("delete", k, i,
                     sja1105_table_delete_entry(tbl_config.tables[k], i,
                                                garbage))
    /\ UNCHANGED <<pkVars, shift_ub, cfgVars, upVars, dynVars, tasVars,
                   tmpVars, sendVars, wkVars, pairVars>>

\* sja1105_table_resize(&config->tables[k], new_count)
TblResize ==
    /\ tbl_pc = "ready"
    /\ tbl_nops < MaxTableOps
    /\ \E k \in TblKinds :
          \E new_count \in
                 TblCounts(tbl_config.tables[k].entry_count,
                           table_ops(tbl_config.variant, k).max_entry_count) :
          \E alloc_ok \in
                 TblAllocs(new_count,
                           table_ops(tbl_config.variant, k).max_entry_count) :
             TblDone("resize", k, new_count,
                     sja1105_table_resize(tbl_config.tables[k],
                         table_ops(tbl_config.variant, k), k, new_count,
                         alloc_ok))
    /\ UNCHANGED <<pkVars, shift_ub, cfgVars, upVars, dynVars, tasVars,
                   tmpVars, sendVars, wkVars, pairVars>>

\* sja1105_static_config_check_valid(config)
TblCheckValid ==
    /\ tbl_pc = "ready"
    /\ tbl_call.op # "check"
    /\ tbl_call' = [op |-> "check", blk_idx |-> "BLK_IDX_INVAL", arg |-> 0]
    /\ tbl_rc' = sja1105_static_config_check_valid(tbl_config)
    /\ tbl_prev' = tbl_config.tables
    /\ UNCHANGED <<tbl_pc, tbl_config, tbl_nops>>
    /\ UNCHANGED <<pkVars, shift_ub, cfgVars, upVars, dynVars, tasVars,
                   tmpVars, sendVars, wkVars, pairVars>>

TblNext == TblDelete \/ TblResize \/ TblCheckValid

TableSpec == TblInit /\ [][TblNext]_vars

TblCount(k) == tbl_config.tables[k].entry_count
TblMax(k) == table_ops(tbl_config.variant, k).max_entry_count

\* the rules of validity that are not about the five required tables and
\* not about the frame memory
TblOtherRules ==
    /\ DEVICE_ID_VALID(tbl_config.device_id)
    /\ TblCount("BLK_IDX_SCHEDULE") = 0
    /\ TblCount("BLK_IDX_VL_LOOKUP") = 0
    /\ TblCount("BLK_IDX_L2_POLICING") # 0
    /\ TblCount("BLK_IDX_VLAN_LOOKUP") # 0

TblMissing == {k \in TblRequired : TblCount(k) # TblMax(k)}

TblMissingOutcome(k) ==
    CASE k = "BLK_IDX_L2_FORWARDING" ->
           Validity("SJA1105_MISSING_L2_FORWARDING_TABLE")
      [] k = "BLK_IDX_MAC_CONFIG" -> Validity("SJA1105_MISSING_MAC_TABLE")
      [] k = "BLK_IDX_L2_FORWARDING_PARAMS" ->
           Validity("SJA1105_MISSING_L2_FORWARDING_PARAMS_TABLE")
      [] k = "BLK_IDX_GENERAL_PARAMS" ->
           Validity("SJA1105_MISSING_GENERAL_PARAMS_TABLE")
      [] k = "BLK_IDX_XMII_PARAMS" -> Validity("SJA1105_MISSING_XMII_TABLE")

\* C12: when a configuration satisfies the other rules and exactly one of
\* the tables L2 forwarding, MAC config, L2 forwarding params, general params
\* and xMII params has an entry_count different from its max_entry_count,
\* sja1105_static_config_check_valid returns the outcome of that table.
C12_MissingTableOutcome ==
    (/\ tbl_call.op = "check"
     /\ TblOtherRules
     /\ Cardinality(TblMissing) = 1)
    => \A k \in TblMissing : tbl_rc = TblMissingOutcome(k)

\* the check ran on a configuration whose only flaw is a MAC table with one
\* entry less than there are ports
C12_Witness ==
    /\ tbl_call.op = "check"
    /\ TblOtherRules
    /\ TblMissing = {"BLK_IDX_MAC_CONFIG"}
    /\ TblCount("BLK_IDX_MAC_CONFIG") = SJA1105_NUM_PORTS - 1
    /\ tbl_rc = Validity("SJA1105_MISSING_MAC_TABLE")

RECURSIVE TblSum(_, _, _)
TblSum(entry, m, i) ==
    IF i >= 8 THEN 0
    ELSE SumPow2(entry[Elem(m, i)]) + TblSum(entry, m, i + 1)

\* the frame memory the partitions of the configuration ask for
TblFrameMemory ==
    TblSum(tbl_config.tables["BLK_IDX_L2_FORWARDING_PARAMS"].entries[1],
           "part_spc", 0)
    + (IF TblCount("BLK_IDX_VL_FORWARDING_PARAMS") # 0
       THEN TblSum(tbl_config.tables["BLK_IDX_VL_FORWARDING_PARAMS"]
                       .entries[1], "partspc", 0)
       ELSE 0)

\* C13: for a configuration that satisfies every table-presence rule,
\* sja1105_static_config_check_valid returns SJA1105_CONFIG_OK when the
\* partitions of L2 forwarding params and, if populated, of VL forwarding
\* params add up to the budget, and SJA1105_OVERCOMMITTED_FRAME_MEMORY when
\* they add up to the budget plus 1; the budget is 910 with a retagging
\* entry and 929 without.
C13_FrameMemoryBudget ==
    (/\ tbl_call.op = "check"
     /\ TblOtherRules
     /\ TblMissing = {})
    => /\ TblFrameMemory
            = (IF TblCount("BLK_IDX_RETAGGING") >= 1 THEN 910 ELSE 929)
          => tbl_rc = SJA1105_CONFIG_OK
       /\ TblFrameMemory
            = (IF TblCount("BLK_IDX_RETAGGING") >= 1 THEN 910 ELSE 929) + 1
          => tbl_rc = Validity("SJA1105_OVERCOMMITTED_FRAME_MEMORY")

\* the check refused 911 blocks asked for by both parameter tables of a
\* configuration with a retagging rule
C13_Witness ==
    /\ tbl_call.op = "check"
    /\ TblOtherRules
    /\ TblMissing = {}
    /\ TblCount("BLK_IDX_RETAGGING") = 1
    /\ TblCount("BLK_IDX_VL_FORWARDING_PARAMS") = 1
    /\ TblFrameMemory = 911
    /\ tbl_rc = Validity("SJA1105_OVERCOMMITTED_FRAME_MEMORY")

TblOld == tbl_prev[tbl_call.blk_idx]
TblNew == tbl_config.tables[tbl_call.blk_idx]

\* the entries in use of a table, without the one at index i (from 0)
TblWithout(table, i) ==
    [j \in 1..(table.entry_count - 1) |->
        IF j <= i THEN table.entries[j] ELSE table.entries[j + 1]]

TblSame(t1, t2) ==
    /\ t1.entry_count = t2.entry_count
    /\ UsedEntries(t1) = UsedEntries(t2)

\* C14: sja1105_table_delete_entry(table, i) on a table with n entries
\* returns -ERANGE and leaves entry_count and the entries as they were when
\* there is no entry at index i; otherwise it removes entry i, keeps the
\* other n - 1 entries in their order and sets entry_count to n - 1.
C14_DeleteEntry ==
    tbl_call.op = "delete"
    => IF tbl_call.arg < 0 \/ tbl_call.arg >= TblOld.entry_count
       THEN tbl_rc = -ERANGE /\ TblSame(TblNew, TblOld)
       ELSE /\ tbl_rc = 0
            /\ TblNew.entry_count = TblOld.entry_count - 1
            /\ UsedEntries(TblNew) = TblWithout(TblOld, tbl_call.arg)

\* C15 as stated: sja1105_table_resize(table, new_count) returns -ERANGE and
\* leaves the table as it was when new_count > max_entry_count; in every
\* other case entry_count becomes new_count, the first min(old_count,
\* new_count) entries are the old ones in their order and the further
\* entries are all-zero.
C15_ResizeAlwaysDone ==
    tbl_call.op = "resize"
    => IF tbl_call.arg > TblMax(tbl_call.blk_idx)
       THEN tbl_rc = -ERANGE /\ TblSame(TblNew, TblOld)
       ELSE /\ TblNew.entry_count = tbl_call.arg
            /\ \A j \in 1..tbl_call.arg :
                  TblNew.entries[j] =
                      IF j <= TblOld.entry_count THEN TblOld.entries[j]
                      ELSE ZeroEntry(tbl_call.blk_idx)

\* C15, amended: sja1105_table_resize(table, new_count) returns -ERANGE when
\* new_count > max_entry_count, and otherwise -ENOMEM or 0; after -ERANGE
\* and after -ENOMEM the table is as it was; after 0 entry_count is
\* new_count, the first min(old_count, new_count) entries are the old ones
\* in their order and the further entries are all-zero.
C15_Resize ==
    tbl_call.op = "resize"
    => /\ (tbl_rc = -ERANGE) <=> (tbl_call.arg > TblMax(tbl_call.blk_idx))
       /\ tbl_rc \in {-ERANGE, -ENOMEM, 0}
       /\ tbl_rc # 0 => TblSame(TblNew, TblOld)
       /\ tbl_rc = 0
          => /\ TblNew.entry_count = tbl_call.arg
             /\ Len(TblNew.entries) = tbl_call.arg
             /\ \A j \in 1..tbl_call.arg :
                   TblNew.entries[j] =
                       IF j <= TblOld.entry_count THEN TblOld.entries[j]
                       ELSE ZeroEntry(tbl_call.blk_idx)

\* a table of one policer was grown to two
C15_Witness ==
    /\ tbl_call.op = "resize"
    /\ tbl_rc = 0
    /\ TblOld.entry_count = 1
    /\ TblNew.entry_count = 2
    /\ TblNew.entries[1] # ZeroEntry(tbl_call.blk_idx)
    /\ TblNew.entries[2] = ZeroEntry(tbl_call.blk_idx)

\* C16: after any sequence of table operations on an initialised static
\* configuration, whether each call succeeds or fails, every table has
\* 0 <= entry_count <= ops->max_entry_count.
C16_EntryCountInRange ==
    tbl_pc # "idle"
    => \A k \in BlkIdx : 0 <= TblCount(k) /\ TblCount(k) <= TblMax(k)

\* ------------------------------------------------------------------------
\* sja1105_static_config.c: unpacking a packed buffer that was altered

\* one turn of the table loop of sja1105_static_config_pack(), keeping where
\* it writes instead of what: st is [secs, off], secs the sections written
\* so far as [blk_idx, off, nbytes] (off the offset of the header, nbytes the
\* length of the entries) and off the offset of p
section_next(config, st, i) ==
    LET k == BlkIdxOrder[i]
        nbytes == config.tables[k].entry_count
                      * table_ops(config.variant, k).packed_entry_size
    IN IF config.tables[k].entry_count = 0 THEN st
       ELSE [secs |-> Append(st.secs,
                             [blk_idx |-> k, off |-> st.off,
                              nbytes |-> nbytes]),
             off |-> st.off + SIZE_TABLE_HEADER + nbytes + 4]

\* the table sections of the buffer sja1105_static_config_pack() writes
Sections(config) ==
    ForLoop(LAMBDA st, i : section_next(config, st, i),
            [secs |-> << >>, off |-> SIZE_SJA1105_DEVICE_ID],
            1, BLK_IDX_MAX).secs

\* the buffer s with bit `bit` of the byte at offset off inverted
FlipBit(s, off, bit) == [s EXCEPT ![off + 1] = Xor(@, {bit})]

\* the buffer s with the header of section sec packed again for another
\* block id, CRC of the header included
WithBlockId(s, sec, block_id, ub) ==
    LET h == sja1105_table_header_pack_with_crc(
                 [header_unpack(SeqToBuf(s, sec.off, SIZE_TABLE_HEADER), ub)
                     EXCEPT !.block_id = BitsOf(block_id)], ub).buf
    IN [a \in 1..Len(s) |->
           IF a > sec.off /\ a <= sec.off + SIZE_TABLE_HEADER
           THEN h[a - sec.off - 1] ELSE s[a]]

\* the bits of a byte that get inverted
TamperBits == {0, 7}

\* block ids that blk_idx_from_blk_id() maps to no table: one past
\* BLKID_MAX, one inside the range
UnknownBlockIds ==
    {id \in {BLKID_MAX + 1, blk_id_map["BLK_IDX_XMII_PARAMS"] - 1} :
        blk_idx_from_blk_id(id) = BLK_IDX_INVAL}

\* the bytes of the entries of a section that get a bit inverted
EntryOffsets(sec) == {0, sec.nbytes \div 2, sec.nbytes - 1}

\* the bytes of a header that get a bit inverted: the first and the last
\* byte of each of its three words
HeaderOffsets == {4 * w + a : w \in 0..2, a \in {0, 3}}

\* kcalloc() fails or not; a failure is met at the first section already
TamperAllocs(t) == IF t.sec = 1 THEN BOOLEAN ELSE {TRUE}

\* The alterations of a packed buffer with the sections secs: one bit of the
\* entries of a section inverted, one bit of its header inverted, its header
\* naming an unknown block, its header naming the table of an earlier
\* section.
Tampers(secs) ==
    UNION {
        {[kind |-> "entry", sec |-> n, at |-> a, bit |-> b] :
            a \in EntryOffsets(secs[n]), b \in TamperBits}
        \cup {[kind |-> "header", sec |-> n, at |-> a, bit |-> b] :
                 a \in HeaderOffsets, b \in TamperBits}
        \cup {[kind |-> "unknown_id", sec |-> n, at |-> id, bit |-> 0] :
                 id \in UnknownBlockIds}
        \cup {[kind |-> "earlier_id", sec |-> n,
               at |-> blk_id_map[secs[m].blk_idx], bit |-> 0] :
                 m \in {1, n - 1} \cap (1..(n - 1))}
        : n \in 1..Len(secs)}

Tampered(s, secs, t, ub) ==
    CASE t.kind = "entry" ->
             FlipBit(s, secs[t.sec].off + SIZE_TABLE_HEADER + t.at, t.bit)
      [] t.kind = "header" -> FlipBit(s, secs[t.sec].off + t.at, t.bit)
      [] OTHER -> WithBlockId(s, secs[t.sec], t.at, ub)

\* the configurations whose packed buffers get altered
TamperVariants == {"T", "P"}

\* No shift of sja1105_static_config_pack() and of
\* sja1105_static_config_unpack() has a count out of range, so one outcome
\* of such shifts stands for both.
TamperInit ==
    /\ ConfigInit
    /\ shift_ub = "wrap"
    /\ static_config.variant \in TamperVariants
    /\ static_config.tables["BLK_IDX_L2_POLICING"].entry_count = 1

\* rc = sja1105_static_config_unpack(buf, buf_len, &new), buf being
\* config_buf after the alteration t
ConfigUnpackTampered ==
    /\ cfg_pc = "packed"
    /\ \E t \in Tampers(Sections(static_config)) :
       \E alloc_ok \in TamperAllocs(t) :
          /\ cfg_tamper' = [kind |-> t.kind, sec |-> t.sec, at |-> t.at,
                            bit |-> t.bit, alloc_ok |-> alloc_ok]
          /\ ConfigUnpacked(
                 sja1105_static_config_unpack(
                     Tampered(config_buf, Sections(static_config), t,
                              shift_ub),
                     Len(config_buf),
                     sja1105_static_config_init(static_config.variant),
                     alloc_ok, shift_ub))
    /\ cfg_pc' = "unpacked"
    /\ UNCHANGED <<pkVars, shift_ub, static_config, config_buf, upVars,
                   dynVars, tasVars, tblVars, sendVars, wkVars, pairVars>>

TamperNext == ConfigPack \/ ConfigUnpackTampered

TamperSpec == TamperInit /\ [][TamperNext]_vars

\* the unpacking of a buffer altered in the way kind, memory being there
TamperedAs(kind) ==
    /\ cfg_pc = "unpacked"
    /\ cfg_tamper # << >>
    /\ cfg_tamper.kind = kind
    /\ cfg_tamper.alloc_ok

\* C17: for a buffer written by sja1105_static_config_pack, inverting one
\* bit inside the packed entries of a table section makes
\* sja1105_static_config_unpack return SJA1105_DATA_CRC_INVALID.
C17_EntryBitFlipDetected ==
    TamperedAs("entry") => cfg_rc = Validity("SJA1105_DATA_CRC_INVALID")

\* a bit of the last byte of the entries of the third section was inverted
C17_Witness ==
    /\ TamperedAs("entry")
    /\ cfg_tamper.sec = 3
    /\ cfg_tamper.at > 0
    /\ cfg_rc = Validity("SJA1105_DATA_CRC_INVALID")

\* C18: for a buffer written by sja1105_static_config_pack, inverting one
\* bit inside the bytes of the header of a table section (block id, length
\* or header CRC) makes sja1105_static_config_unpack return
\* SJA1105_INVALID_TABLE_HEADER_CRC.
C18_HeaderBitFlipDetected ==
    TamperedAs("header")
    => cfg_rc = Validity("SJA1105_INVALID_TABLE_HEADER_CRC")

\* C19: sja1105_static_config_unpack returns SJA1105_INVALID_TABLE_HEADER
\* when a section header with a correct header CRC carries a block id that
\* maps to no table kind, or the block id of a table that an earlier section
\* of the same buffer populated.
C19_BadBlockIdReported ==
    (TamperedAs("unknown_id") \/ TamperedAs("earlier_id"))
    => cfg_rc = Validity("SJA1105_INVALID_TABLE_HEADER")

\* ------------------------------------------------------------------------
\* sja1105_spi.c: a long buffer sent in chunks

SIZE_SPI_MSG_HEADER == 4

\* most chunks a buffer of the model takes
MaxSendChunks == 3

\* the buffer lengths: around each multiple of SIZE_SPI_MSG_MAXLEN, and two
\* that are no multiple of 4
SendLens ==
    {len \in {SIZE_SPI_MSG_MAXLEN * c + d :
                 c \in 0..MaxSendChunks, d \in {-4, 0, 4, 130}} :
        len >= 0 /\ len <= SIZE_SPI_MSG_MAXLEN * MaxSendChunks}

\* regs->config of both generations, and the start of the address space
SendBases == {0, 131072}

\* min_t(int, a, b), min(a, b); the lengths here are below 2^31, where the
\* conversion to int keeps the value
send_min(a, b) == IF a < b THEN a ELSE b

\* the body of sja1105_spi_send_packed_buf() around sja1105_spi_transfer():
\* [rc, sent], sent telling whether the transfer was issued, spi_rc being
\* what sja1105_spi_transfer() returns once called
spi_send_packed_buf(read_or_write, size_bytes, spi_rc) ==
    IF size_bytes + SIZE_SPI_MSG_HEADER
           > SIZE_SPI_MSG_HEADER + SIZE_SPI_MSG_MAXLEN
    THEN [rc |-> -ERANGE, sent |-> FALSE]
    ELSE IF read_or_write \notin {SPI_READ, SPI_WRITE}
    THEN [rc |-> -EINVAL, sent |-> FALSE]
    ELSE [rc |-> IF spi_rc < 0 THEN spi_rc ELSE 0, sent |-> TRUE]

\* chunk.buf_ptr += chunk.len; chunk.spi_address += chunk.len;
\* the word address advanced by the bytes sent
chunk_next_by_bytes(c, buf_len) ==
    [buf_ptr |-> c.buf_ptr + c.len,
     spi_address |-> c.spi_address + c.len,
     len |-> send_min(buf_len - (c.buf_ptr + c.len), SIZE_SPI_MSG_MAXLEN)]

\* chunk.buf_ptr += chunk.len; chunk.spi_address += chunk.len / 4;
\* distance_to_end = (packed_buf + buf_len) - chunk.buf_ptr;
\* chunk.len = min(distance_to_end, SIZE_SPI_MSG_MAXLEN);
chunk_next(c, buf_len) ==
    [buf_ptr |-> c.buf_ptr + c.len,
     spi_address |-> c.spi_address + (c.len \div 4),
     len |-> send_min(buf_len - (c.buf_ptr + c.len), SIZE_SPI_MSG_MAXLEN)]

SendInit ==
    /\ PkIdle
    /\ CfgIdle
    /\ UpIdle
    /\ DynIdle
    /\ TasIdle
    /\ TblIdle
    /\ TmpIdle
    /\ WkIdle
    /\ PairIdle
    /\ shift_ub = "wrap"
    /\ send_pc = "ready"
    /\ send_call = << >>
    /\ chunk = << >>
    /\ send_rc = 0
    /\ send_log = << >>

\* sja1105_spi_send_long_packed_buf(priv, read_or_write, base_addr,
\* packed_buf, buf_len) up to its loop: "Initialize chunk"
SendLongStart ==
    /\ send_pc = "ready"
    /\ \E base_addr \in SendBases, buf_len \in SendLens,
          read_or_write \in {SPI_READ, SPI_WRITE} :
          /\ send_call' = [read_or_write |-> read_or_write,
                           base_addr |-> base_addr, buf_len |-> buf_len]
          /\ chunk' = [buf_ptr |-> 0, spi_address |-> base_addr,
                       len |-> send_min(buf_len, SIZE_SPI_MSG_MAXLEN)]
    /\ send_pc' = "loop"
    /\ send_rc' = 0
    /\ send_log' = << >>
    /\ UNCHANGED <<pkVars, shift_ub, cfgVars, upVars, dynVars, tasVars,
                   tblVars, tmpVars, wkVars, pairVars>>

\* the transfer of the chunk returned r = [rc, sent]
SendLongSent(r) ==
    /\ send_log' = IF r.sent
                   THEN Append(send_log,
                               [reg_addr |-> chunk.spi_address,
                                off |-> chunk.buf_ptr, len |-> chunk.len,
                                rc |-> r.rc])
                   ELSE send_log
    /\ IF r.rc < 0
       THEN /\ send_rc' = r.rc
            /\ send_pc' = "done"
            /\ UNCHANGED chunk
       ELSE /\ chunk' = chunk_next(chunk, send_call.buf_len)
            /\ UNCHANGED <<send_rc, send_pc>>

\* one turn of while (chunk.len) { rc = sja1105_spi_send_packed_buf(...);
\*                                 if (rc < 0) return rc; ... }
SendLongChunk ==
    /\ send_pc = "loop"
    /\ chunk.len # 0
    /\ \E spi_rc \in {0} \cup SpiErrors :
          SendLongSent(spi_send_packed_buf(send_call.read_or_write,
                                           chunk.len, spi_rc))
    /\ UNCHANGED send_call
    /\ UNCHANGED <<pkVars, shift_ub, cfgVars, upVars, dynVars, tasVars,
                   tblVars, tmpVars, wkVars, pairVars>>

\* chunk.len is 0: return 0;
SendLongReturn ==
    /\ send_pc = "loop"
    /\ chunk.len = 0
    /\ send_rc' = 0
    /\ send_pc' = "done"
    /\ UNCHANGED <<send_call, chunk, send_log>>
    /\ UNCHANGED <<pkVars, shift_ub, cfgVars, upVars, dynVars, tasVars,
                   tblVars, tmpVars, wkVars, pairVars>>

SendNext == SendLongStart \/ SendLongChunk \/ SendLongReturn

SendSpec == SendInit /\ [][SendNext]_vars

\* the j-th transfer (from 0) of a buffer of buf_len bytes sent to base_addr
SendExpected(j, base_addr, buf_len) ==
    [reg_addr |-> base_addr + 64 * j,
     off |-> 256 * j,
     len |-> send_min(256 * (j + 1), buf_len) - 256 * j]

\* C20: for a buffer length that is a multiple of 4, the transfers of
\* sja1105_spi_send_long_packed_buf go in buffer order, each of at most
\* SIZE_SPI_MSG_MAXLEN (256) bytes; the j-th (from 0) carries the bytes
\* [256*j, min(256*(j+1), buf_len)) to word address base_addr + 64*j; every
\* byte is transferred exactly once when all transfers succeed, and the call
\* stops at the first transfer that fails and returns its error.
C20_SendLongChunks ==
    (send_pc = "done" /\ send_call.buf_len % 4 = 0)
    => /\ \A j \in 1..Len(send_log) :
             /\ send_log[j].len >= 1
             /\ send_log[j].len <= SIZE_SPI_MSG_MAXLEN
             /\ [reg_addr |-> send_log[j].reg_addr, off |-> send_log[j].off,
                 len |-> send_log[j].len]
                    = SendExpected(j - 1, send_call.base_addr,
                                   send_call.buf_len)
             /\ j < Len(send_log) => send_log[j].rc = 0
       /\ IF send_log # << >> /\ send_log[Len(send_log)].rc < 0
          THEN send_rc = send_log[Len(send_log)].rc
          ELSE /\ send_rc = 0
               /\ \A b \in 0..(send_call.buf_len - 1) :
                     Cardinality({j \in 1..Len(send_log) :
                                     /\ send_log[j].off <= b
                                     /\ b < send_log[j].off
                                              + send_log[j].len}) = 1

\* a buffer of two full chunks and one word got through
C20_Witness ==
    /\ send_pc = "done"
    /\ send_rc = 0
    /\ send_call.buf_len = 2 * SIZE_SPI_MSG_MAXLEN + 4
    /\ Len(send_log) = 3
    /\ send_log[3].len = 4

\* ---- inputs of the packing specification ----
MaxWords == 2
PackingLens == {4 * w : w \in 1..MaxWords}
PackingEndBits == {0, 3, 4, 8, 15, 29, 32}
PackingWidths == {1, 4, 5, 8, 9, 17, 32, 33, 64}
PackingValues(width) ==
    {{}, {0}, {width - 1}, 0..(width - 1),
     {b \in 0..(width - 1) : b % 2 = 0}, {b \in 0..(width - 1) : b % 3 = 1}}
PackingFills == {{}, U8Bits}

PackingInit ==
    /\ CfgIdle
    /\ UpIdle
    /\ DynIdle
    /\ TasIdle
    /\ LaterIdle
    /\ pk_pc = "start"
    /\ pbuflen \in PackingLens
    /\ quirks \in SUBSET AllQuirks
    /\ shift_ub \in ShiftOutcomes
    /\ pendbit \in PackingEndBits
    /\ \E w \in PackingWidths :
          /\ pstartbit = pendbit + w - 1
          /\ pstartbit < 8 * pbuflen
          /\ uval_in \in PackingValues(w)
    /\ \E fill \in PackingFills : pbuf = [a \in 0..(pbuflen - 1) |-> fill]
    /\ uval = uval_in
    /\ pk_rc = 0

\* packing(pbuf, &uval, pstartbit, pendbit, pbuflen, PACK, quirks) having
\* returned r
Packed(r) ==
    /\ pbuf' = r.pbuf
    /\ pk_rc' = r.rc
    /\ uval' = {}     \* the caller's variable for the UNPACK that follows

DoPack ==
    /\ pk_pc = "start"
    /\ Packed(packing(pbuf, uval, pstartbit, pendbit, pbuflen, PACK, quirks,
                      shift_ub))
    /\ pk_pc' = "packed"
    /\ UNCHANGED <<dynVars, tasVars, laterVars, pbuflen, pstartbit, pendbit, quirks, uval_in, shift_ub,
                   cfgVars, upVars>>

\* packing(pbuf, &uval, pstartbit, pendbit, pbuflen, UNPACK, quirks) having
\* returned r
Unpacked(r) ==
    /\ uval' = r.uval
    /\ pk_rc' = r.rc
    /\ pbuf' = r.pbuf

DoUnpack ==
    /\ pk_pc = "packed"
    /\ pk_rc = 0
    /\ Unpacked(packing(pbuf, uval, pstartbit, pendbit, pbuflen, UNPACK,
                        quirks, shift_ub))
    /\ pk_pc' = "done"
    /\ UNCHANGED <<dynVars, tasVars, laterVars, pbuflen, pstartbit, pendbit, quirks, uval_in, shift_ub,
                   cfgVars, upVars>>

PackingNext == DoPack \/ DoUnpack

PackingSpec == PackingInit /\ [][PackingNext]_vars

\* C1: for every combination of the three quirks, every window
\* start_bit >= end_bit of width <= 64 inside the buffer and every value
\* below 2^width, PACK followed by UNPACK on the same buffer returns the
\* original value.
C1_PackUnpackRoundTrip ==
    (pk_pc = "done" /\ pk_rc = 0) => uval = uval_in

\* ---- two fields in one buffer ----
\* An entry codec is a sequence of sja1105_packing() calls on one buffer.

PairEndBits == {0, 3, 8, 29, 32, 40}
PairWidths == {1, 5, 27, 32, 64}

\* the windows [start, end] inside a buffer of len bytes
PairWindows(len) ==
    {w \in {[start |-> e + n - 1, end |-> e] :
               e \in PairEndBits, n \in PairWidths} : w.start < 8 * len}

\* the values packed: all ones, and every other bit
PairValues(w) ==
    {0..(w.start - w.end), {b \in 0..(w.start - w.end) : b % 2 = 0}}

PairField(w, val) == [start |-> w.start, end |-> w.end, val |-> val]

PairInit ==
    /\ PkIdle
    /\ CfgIdle
    /\ UpIdle
    /\ DynIdle
    /\ TasIdle
    /\ TblIdle
    /\ TmpIdle
    /\ SendIdle
    /\ WkIdle
    /\ shift_ub \in ShiftOutcomes
    /\ pair_pc = "start"
    /\ \E len \in PackingLens, fill \in PackingFills :
       \E wa \in PairWindows(len), wb \in PairWindows(len) :
       \E va \in PairValues(wa), vb \in PairValues(wb) :
          pair_in = [buf |-> [i \in 0..(len - 1) |-> fill], len |-> len,
                     a |-> PairField(wa, va), b |-> PairField(wb, vb)]
    /\ pair_one = << >>
    /\ pair_both = << >>
    /\ pair_out = << >>

\* sja1105_packing(buf, &f.val, f.start, f.end, len, PACK): [rc, pbuf, uval]
PairPacked(buf, f) ==
    sja1105_packing(buf, f.val, f.start, f.end, pair_in.len, PACK, shift_ub)

\* sja1105_packing(buf, &val, f.start, f.end, len, UNPACK)
PairUnpacked(buf, f) ==
    sja1105_packing(buf, {}, f.start, f.end, pair_in.len, UNPACK, shift_ub)

\* one of the two fields is packed into the buffer
PairPackOne ==
    /\ pair_pc = "start"
    /\ pair_one' = [a |-> PairPacked(pair_in.buf, pair_in.a),
                    b |-> PairPacked(pair_in.buf, pair_in.b)]
    /\ pair_pc' = "one"
    /\ UNCHANGED <<pair_in, pair_both, pair_out>>
    /\ UNCHANGED <<pkVars, shift_ub, cfgVars, upVars, dynVars, tasVars,
                   tblVars, tmpVars, sendVars, wkVars>>

\* then the other one
PairPackOther ==
    /\ pair_pc = "one"
    /\ pair_both' = [ab |-> PairPacked(pair_one.a.pbuf, pair_in.b),
                     ba |-> PairPacked(pair_one.b.pbuf, pair_in.a)]
    /\ pair_pc' = "both"
    /\ UNCHANGED <<pair_in, pair_one, pair_out>>
    /\ UNCHANGED <<pkVars, shift_ub, cfgVars, upVars, dynVars, tasVars,
                   tblVars, tmpVars, sendVars, wkVars>>

\* and both are unpacked
PairUnpack ==
    /\ pair_pc = "both"
    /\ pair_out' = [a |-> PairUnpacked(pair_both.ab.pbuf, pair_in.a),
                    b |-> PairUnpacked(pair_both.ab.pbuf, pair_in.b)]
    /\ pair_pc' = "done"
    /\ UNCHANGED <<pair_in, pair_one, pair_both>>
    /\ UNCHANGED <<pkVars, shift_ub, cfgVars, upVars, dynVars, tasVars,
                   tblVars, tmpVars, sendVars, wkVars>>

PairNext == PairPackOne \/ PairPackOther \/ PairUnpack

PairSpec == PairInit /\ [][PairNext]_vars

\* Logical bit n of a buffer of 32-bit words of which the least significant
\* one comes first, each with its most significant byte first.
PairLogicalBit(buf, n) ==
    (n % 8) \in buf[4 * (n \div 32) + 3 - ((n % 32) \div 8)]

PairInWindow(f, n) == f.end <= n /\ n <= f.start

PairDisjoint == pair_in.a.start < pair_in.b.end
                \/ pair_in.b.start < pair_in.a.end

\* after holds the bits of f.val in the window of f and the bits of before
\* everywhere else
PairOnlyWindow(before, after, f) ==
    \A n \in 0..(8 * pair_in.len - 1) :
       PairLogicalBit(after, n) =
          IF PairInWindow(f, n) THEN (n - f.end) \in f.val
          ELSE PairLogicalBit(before, n)

\* C24: with QUIRK_LSW32_IS_FIRST and a buffer of a multiple of 4 bytes, a
\* successful PACK changes the logical bits of its window and no other bit
\* of the buffer; two fields with disjoint windows give the same buffer in
\* either order, and each is unpacked as it was packed.
C24_PackTouchesOnlyItsWindow ==
    /\ pair_pc \in {"one", "both", "done"}
       => /\ pair_one.a.rc = 0
             => PairOnlyWindow(pair_in.buf, pair_one.a.pbuf, pair_in.a)
          /\ pair_one.b.rc = 0
             => PairOnlyWindow(pair_in.buf, pair_one.b.pbuf, pair_in.b)
    /\ (pair_pc \in {"both", "done"} /\ PairDisjoint
        /\ pair_both.ab.rc = 0 /\ pair_both.ba.rc = 0)
       => pair_both.ab.pbuf = pair_both.ba.pbuf
    /\ (pair_pc = "done" /\ PairDisjoint
        /\ pair_both.ab.rc = 0 /\ pair_both.ba.rc = 0)
       => /\ pair_out.a.rc = 0 /\ pair_out.a.uval = pair_in.a.val
          /\ pair_out.b.rc = 0 /\ pair_out.b.uval = pair_in.b.val

\* two fields that meet inside a byte, one of them across the two words
C24_Witness ==
    /\ pair_pc = "done"
    /\ pair_in.len = 8
    /\ pair_in.a.end = 29 /\ pair_in.a.start = 33
    /\ pair_in.b.end = 0 /\ pair_in.b.start = 26
    /\ pair_both.ab.rc = 0
    /\ pair_both.ab.pbuf # pair_in.buf
    /\ pair_out.a.uval = pair_in.a.val

====
